---- MODULE Spec2Model ----
(***************************************************************************)
(* A model of jobs-cli: the retrying remote tool client (mcp_client.py),   *)
(* the scrapers' search (scrapers/*.py), the SQLite store (cache/          *)
(* database.py) and the CLI / TUI commands that bind them (main.py,        *)
(* tui/app.py).                                                            *)
(***************************************************************************)
EXTENDS Integers, Sequences, FiniteSets, TLC

VARIABLES
    \* ---- BrightDataMCP._call_tool (one call in progress at most) ----
    cpc,            \* position in _call_tool: idle, loop, session, sleep, done
    max_retries,    \* argument of the call
    base_delay,     \* argument of the call
    attempt,        \* loop variable of `for attempt in range(max_retries + 1)`
    last_error,     \* local last_error
    session_open,   \* number of sessions currently open
    opened,         \* history: number of sessions this call has opened
    sleeps,         \* history: delays passed to asyncio.sleep by this call
    attempt_log,    \* history: the error of every failed attempt of this call
    call_out,       \* how the call ended: return value or raised exception
    \* ---- the SQLite store ----
    now,            \* the wall clock, in ticks
    jobs,           \* table jobs: a set of rows
    request_tracker,\* table request_tracker: month of each row -> requests_count
    cache_metadata, \* table cache_metadata: key of each row -> value
    \* ---- the command in progress (CLI or TUI) ----
    cmd,            \* the command and its arguments
    cpos,           \* position in the command
    todo,           \* rest of scrapers_to_use / platforms_to_refresh
    all_jobs,       \* local all_jobs
    result,         \* what scraper.search gave for the platform in hand
    log,            \* history of the command: one entry per platform handled
    exit_code,      \* how the last command ended
    ncmds,          \* history: number of commands started
    \* ---- concurrent callers of increment_request_count ----
    ipc,            \* caller -> position in increment_request_count
    db_lock,        \* the connection holding SQLite's write lock, or NoCaller
    pending,        \* caller -> uncommitted requests_count of its transaction
    returned,       \* caller -> value returned
    base_count,     \* history: requests_count before the callers started
    stale_q,        \* the last is_cache_stale question and its answer
    last_op         \* history: the last store operation or function call,
                    \* with its arguments and its result

clientVars == <<cpc, max_retries, base_delay, attempt, last_error,
                session_open, opened, sleeps, attempt_log, call_out>>
storeVars  == <<now, jobs, request_tracker, cache_metadata>>
cmdVars    == <<cmd, cpos, todo, all_jobs, result, log, exit_code, ncmds>>
incVars    == <<ipc, db_lock, pending, returned, base_count>>
vars       == <<clientVars, storeVars, cmdVars, incVars, stale_q, last_op>>

----------------------------------------------------------------------------
(* Bounds of the model *)

MaxRetries   == 3    \* largest max_retries a direct caller passes
MaxBaseDelay == 2    \* largest base_delay a direct caller passes
MaxTime      == 26   \* the clock runs from 0 to MaxTime hours
MaxHours     == 2    \* largest staleness threshold a caller passes
NumCallers   == 3    \* concurrent callers of increment_request_count
MaxCount     == 2    \* largest requests_count the month's row starts with
MaxJobTime   == 2    \* the clock of the jobs table runs from 0 to MaxJobTime
MaxBatch     == 2    \* longest list passed to save_jobs
MaxCommands  == 2    \* commands run one after another
monthly_request_limit == 2   \* the setting MONTHLY_REQUEST_LIMIT of the model

----------------------------------------------------------------------------
(* Values *)

NoError == [type |-> "None", msg |-> "None"]

\* Exceptions the session can throw: a Python type and the text of str(e).
Errors ==
    { [type |-> "TimeoutError",         msg |-> ""],
      [type |-> "ConnectionResetError", msg |-> "reset by peer"],
      [type |-> "Exception",            msg |-> "Read Timeout"],
      [type |-> "Exception",            msg |-> "Network down"],
      [type |-> "ValueError",           msg |-> "bad request"],
      [type |-> "Exception",            msg |-> "net work"],
      [type |-> "ClosedResourceError",  msg |-> ""] }

\* The exceptions the session throws while a command runs: a part of Errors.
CommandErrors ==
    { [type |-> "TimeoutError",         msg |-> ""],
      [type |-> "ValueError",           msg |-> "bad request"],
      [type |-> "ClosedResourceError",  msg |-> ""] }

\* A string (str(e), a word of a page, a keyword, a title) as a sequence of
\* characters.
CharsOf(msg) ==
    CASE msg = "" -> << >>
      [] msg = " " -> <<" ">>
      [] msg = "k8s" ->
            <<"k","8","s">>
      [] msg = "oracle" ->
            <<"o","r","a","c","l","e">>
      [] msg = "reset by peer" ->
            <<"r","e","s","e","t"," ","b","y"," ","p","e","e","r">>
      [] msg = "Read Timeout" ->
            <<"R","e","a","d"," ","T","i","m","e","o","u","t">>
      [] msg = "Network down" ->
            <<"N","e","t","w","o","r","k"," ","d","o","w","n">>
      [] msg = "bad request" ->
            <<"b","a","d"," ","r","e","q","u","e","s","t">>
      [] msg = "net work" ->
            <<"n","e","t"," ","w","o","r","k">>
      [] msg = "timeout" ->
            <<"t","i","m","e","o","u","t">>
      [] msg = "connection" ->
            <<"c","o","n","n","e","c","t","i","o","n">>
      [] msg = "network" ->
            <<"n","e","t","w","o","r","k">>
      [] msg = "python" ->
            <<"p","y","t","h","o","n">>
      [] msg = "Python" ->
            <<"P","y","t","h","o","n">>
      [] msg = "PYTHON" ->
            <<"P","Y","T","H","O","N">>
      [] msg = "golang" ->
            <<"g","o","l","a","n","g">>
      [] msg = "Golang" ->
            <<"G","o","l","a","n","g">>
      [] msg = "go" ->
            <<"g","o">>
      [] msg = "Go" ->
            <<"G","o">>
      [] msg = "K8S" ->
            <<"K","8","S">>
      [] msg = "K8s" ->
            <<"K","8","s">>
      [] msg = "Oracle" ->
            <<"O","r","a","c","l","e">>
      [] msg = "JAVA" ->
            <<"J","A","V","A">>
      [] msg = "Java" ->
            <<"J","a","v","a">>
      [] msg = "java" ->
            <<"j","a","v","a">>
      [] msg = "javascript" ->
            <<"j","a","v","a","s","c","r","i","p","t">>
      [] msg = "JavaScript" ->
            <<"J","a","v","a","S","c","r","i","p","t">>
      [] msg = "django" ->
            <<"d","j","a","n","g","o">>
      [] msg = "Django" ->
            <<"D","j","a","n","g","o">>
      [] msg = "redis" ->
            <<"r","e","d","i","s">>
      [] msg = "Redis" ->
            <<"R","e","d","i","s">>
      [] msg = "docker" ->
            <<"d","o","c","k","e","r">>
      [] msg = "Docker" ->
            <<"D","o","c","k","e","r">>
      [] msg = "spring" ->
            <<"s","p","r","i","n","g">>
      [] msg = "Spring" ->
            <<"S","p","r","i","n","g">>
      [] msg = "springboot" ->
            <<"s","p","r","i","n","g","b","o","o","t">>
      [] msg = "SpringBoot" ->
            <<"S","p","r","i","n","g","B","o","o","t">>
      [] msg = "Spring Boot" ->
            <<"S","p","r","i","n","g"," ","B","o","o","t">>
      [] msg = "kubernetes" ->
            <<"k","u","b","e","r","n","e","t","e","s">>
      [] msg = "Kubernetes" ->
            <<"K","u","b","e","r","n","e","t","e","s">>
      [] msg = "mysql" ->
            <<"m","y","s","q","l">>
      [] msg = "MySQL" ->
            <<"M","y","S","Q","L">>
      [] msg = "linux" ->
            <<"l","i","n","u","x">>
      [] msg = "Linux" ->
            <<"L","i","n","u","x">>
      [] msg = "rust" ->
            <<"r","u","s","t">>
      [] msg = "Python Engineer" ->
            <<"P","y","t","h","o","n"," ","E","n","g","i","n","e","e","r">>
      [] msg = "Java Developer" ->
            <<"J","a","v","a"," ","D","e","v","e","l","o","p","e","r">>
      [] msg = "Senior Python Engineer" ->
            <<"S","e","n","i","o","r"," ","P","y","t","h","o","n"," ","E","n","g","i","n","e","e","r">>
      [] msg = "Django Developer" ->
            <<"D","j","a","n","g","o"," ","D","e","v","e","l","o","p","e","r">>
      [] msg = "uses Go daily" ->
            <<"u","s","e","s"," ","G","o"," ","d","a","i","l","y">>

\* str.lower() on one character.
LowerChar(c) ==
    CASE c = "A" -> "a"
      [] c = "B" -> "b"
      [] c = "C" -> "c"
      [] c = "D" -> "d"
      [] c = "E" -> "e"
      [] c = "F" -> "f"
      [] c = "G" -> "g"
      [] c = "H" -> "h"
      [] c = "I" -> "i"
      [] c = "J" -> "j"
      [] c = "K" -> "k"
      [] c = "L" -> "l"
      [] c = "M" -> "m"
      [] c = "N" -> "n"
      [] c = "O" -> "o"
      [] c = "P" -> "p"
      [] c = "Q" -> "q"
      [] c = "R" -> "r"
      [] c = "S" -> "s"
      [] c = "T" -> "t"
      [] c = "U" -> "u"
      [] c = "V" -> "v"
      [] c = "W" -> "w"
      [] c = "X" -> "x"
      [] c = "Y" -> "y"
      [] c = "Z" -> "z"
      [] OTHER   -> c

Lower(s) == [i \in 1..Len(s) |-> LowerChar(s[i])]

\* Python's `needle in hay` on strings.
Contains(hay, needle) ==
    \E i \in 1..(Len(hay) - Len(needle) + 1) :
        SubSeq(hay, i, i + Len(needle) - 1) = needle

\* isinstance(e, asyncio.TimeoutError)
IsTimeoutError(e) == e.type = "TimeoutError"

\* isinstance(e, ConnectionError): ConnectionResetError is a subclass.
IsConnectionError(e) == e.type \in {"ConnectionError", "ConnectionResetError"}

\* the keyword test of the generic except clause
HasTransientKeyword(e) ==
    LET error_str == Lower(CharsOf(e.msg))
    IN  \/ Contains(error_str, CharsOf("timeout"))
        \/ Contains(error_str, CharsOf("connection"))
        \/ Contains(error_str, CharsOf("network"))

\* IsRetryable if the generic except clause retried every exception
IsRetryable_Any(e) ==
    \/ IsTimeoutError(e)
    \/ IsConnectionError(e)
    \/ e.type # "None"

\* the three except clauses, in order: which errors are retried
IsRetryable(e) ==
    \/ IsTimeoutError(e)
    \/ IsConnectionError(e)
    \/ HasTransientKeyword(e)

RECURSIVE Pow2(_)
Pow2(n) == IF n <= 0 THEN 1 ELSE 2 * Pow2(n - 1)

\* BackoffDelay if the delay grew linearly: base_delay * (attempt + 1)
BackoffDelay_Linear(bd, k) == bd * (k + 1)

\* delay = base_delay * (2 ** attempt)
BackoffDelay(bd, k) == bd * Pow2(k)

----------------------------------------------------------------------------
(* What the remote service answers *)

ZUrl1 == "https://www.zhaopin.com/jobdetail/1.htm"
ZUrl2 == "https://www.zhaopin.com/jobdetail/2.htm"
LUrl3 == "https://www.linkedin.com/jobs/view/3"
LUrl4 == "https://www.linkedin.com/jobs/view/4"

\* One listing of a page: a markdown link [title](url) and the text after it.
Block(u, t, l) == [url |-> u, title |-> t, location |-> l]

\* The page texts the remote service returns for a rendered search page.
Pages ==
    { << >>,
      << Block(ZUrl1, "Python Engineer", "Beijing") >>,
      << Block(ZUrl1, "Senior Python Engineer", "Beijing"),
         Block(ZUrl2, "Java Developer", "Beijing") >>,
      << Block(LUrl3, "Python Engineer", "Beijing, China") >>,
      << Block(LUrl3, "Java Developer", "Shanghai, China") >> }

\* The value _call_tool returns: content[0].text, str(content[0]) or "".
TextOf(page)  == [form |-> "text",  page |-> page]
ReprOfContent == [form |-> "repr",  page |-> << >>]
EmptyText     == [form |-> "empty", page |-> << >>]

\* result of session.call_tool: no content, a TextContent, or other content
Responses ==
    {[content |-> "none", page |-> << >>], [content |-> "other", page |-> << >>]}
    \cup {[content |-> "text", page |-> p] : p \in Pages}

\* The results the session gives while a command runs: a part of Responses.
CommandResponses ==
    { [content |-> "none", page |-> << >>],
      [content |-> "text", page |-> << Block(ZUrl1, "Python Engineer", "Beijing") >>],
      [content |-> "text", page |-> << Block(LUrl3, "Python Engineer", "Beijing, China") >>] }

\* lines 86-93 of _call_tool: the text extracted from a tool result
ExtractText(resp) ==
    IF resp.content = "none" THEN EmptyText
    ELSE IF resp.content = "text" THEN TextOf(resp.page)
    ELSE ReprOfContent

NoOutcome == [kind |-> "none", exc |-> "None", err |-> NoError,
              attempts |-> 0, text |-> EmptyText]

Returned(text) == [kind |-> "return", exc |-> "None", err |-> NoError,
                   attempts |-> 0, text |-> text]

\* `raise`: the caught exception itself propagates
Reraised(e) == [kind |-> "raise", exc |-> e.type, err |-> e,
                attempts |-> 0, text |-> EmptyText]

\* raise MCPConnectionError(f"... after {max_retries + 1} attempts. Last error: {last_error}")
ConnectionFailed(mr, e) == [kind |-> "raise", exc |-> "MCPConnectionError",
                            err |-> e, attempts |-> mr + 1, text |-> EmptyText]

----------------------------------------------------------------------------
(* BrightDataMCP._call_tool *)

\* entry of _call_tool: last_error = None, the loop starts at attempt 0
CallTool(mr, bd) ==
    /\ cpc \in {"idle", "done"}
    /\ cpc' = "loop"
    /\ max_retries' = mr
    /\ base_delay' = bd
    /\ attempt' = 0
    /\ last_error' = NoError
    /\ session_open' = 0
    /\ opened' = 0
    /\ sleeps' = << >>
    /\ attempt_log' = << >>
    /\ call_out' = NoOutcome

\* `for attempt in range(max_retries + 1)` has a next value: the two
\* `async with` open the SSE stream and the session
OpenSession ==
    /\ cpc = "loop"
    /\ attempt < max_retries + 1
    /\ cpc' = "session"
    /\ session_open' = session_open + 1
    /\ opened' = opened + 1
    /\ UNCHANGED <<max_retries, base_delay, attempt, last_error, sleeps,
                   attempt_log, call_out>>
    /\ UNCHANGED <<storeVars, cmdVars, incVars, stale_q, last_op>>

\* session.call_tool answers; the `async with` blocks exit and the text is returned
SessionReturns ==
    /\ cpc = "session"
    /\ \E resp \in (IF cpos = "idle" THEN Responses ELSE CommandResponses) :
        call_out' = Returned(ExtractText(resp))
    /\ session_open' = session_open - 1
    /\ cpc' = "done"
    /\ UNCHANGED <<max_retries, base_delay, attempt, last_error, opened,
                   sleeps, attempt_log>>
    /\ UNCHANGED <<storeVars, cmdVars, incVars, stale_q, last_op>>

\* RetryOrGiveUp if last_error were recorded on the first failure only
RetryOrGiveUp_KeepFirst(e) ==
    /\ last_error' = IF last_error = NoError THEN e ELSE last_error
    /\ IF attempt < max_retries
       THEN /\ sleeps' = Append(sleeps, BackoffDelay(base_delay, attempt))
            /\ cpc' = "sleep"
            /\ attempt' = attempt
       ELSE /\ sleeps' = sleeps
            /\ cpc' = "loop"
            /\ attempt' = attempt + 1
    /\ call_out' = call_out

\* the body of one of the three except clauses, for a retryable error e
RetryOrGiveUp(e) ==
    /\ last_error' = e
    /\ IF attempt < max_retries
       THEN /\ sleeps' = Append(sleeps, BackoffDelay(base_delay, attempt))
            /\ cpc' = "sleep"
            /\ attempt' = attempt
       ELSE /\ sleeps' = sleeps
            /\ cpc' = "loop"
            /\ attempt' = attempt + 1
    /\ call_out' = call_out

\* SessionFails if the except clauses ran inside the `async with` blocks
SessionFails_LeaveOpen ==
    /\ cpc = "session"
    /\ \E e \in (IF cpos = "idle" THEN Errors ELSE CommandErrors) :
        /\ attempt_log' = Append(attempt_log, e)
        /\ IF IsRetryable(e)
           THEN RetryOrGiveUp(e)
           ELSE /\ call_out' = Reraised(e)
                /\ cpc' = "done"
                /\ UNCHANGED <<last_error, sleeps, attempt>>
    /\ session_open' = IF cpc' = "sleep" THEN session_open ELSE session_open - 1
    /\ UNCHANGED <<max_retries, base_delay, opened>>
    /\ UNCHANGED <<storeVars, cmdVars, incVars, stale_q, last_op>>

\* the session throws e: the `async with` blocks exit, then the except clauses
SessionFails ==
    /\ cpc = "session"
    /\ \E e \in (IF cpos = "idle" THEN Errors ELSE CommandErrors) :
        /\ attempt_log' = Append(attempt_log, e)
        /\ IF IsRetryable(e)
           THEN RetryOrGiveUp(e)
           ELSE /\ call_out' = Reraised(e)
                /\ cpc' = "done"
                /\ UNCHANGED <<last_error, sleeps, attempt>>
    /\ session_open' = session_open - 1
    /\ UNCHANGED <<max_retries, base_delay, opened>>
    /\ UNCHANGED <<storeVars, cmdVars, incVars, stale_q, last_op>>

\* asyncio.sleep(delay) is over; `continue` takes the next attempt
SleepDone ==
    /\ cpc = "sleep"
    /\ cpc' = "loop"
    /\ attempt' = attempt + 1
    /\ UNCHANGED <<max_retries, base_delay, last_error, session_open, opened,
                   sleeps, attempt_log, call_out>>
    /\ UNCHANGED <<storeVars, cmdVars, incVars, stale_q, last_op>>

\* the loop is exhausted: lines 124-127
Exhausted ==
    /\ cpc = "loop"
    /\ ~(attempt < max_retries + 1)
    /\ call_out' = ConnectionFailed(max_retries, last_error)
    /\ cpc' = "done"
    /\ UNCHANGED <<max_retries, base_delay, attempt, last_error, session_open,
                   opened, sleeps, attempt_log>>
    /\ UNCHANGED <<storeVars, cmdVars, incVars, stale_q, last_op>>

ClientStep == OpenSession \/ SessionReturns \/ SessionFails \/ SleepDone \/ Exhausted

\* a caller invokes _call_tool directly with its own max_retries and base_delay
DirectCall ==
    /\ \E mr \in 0..MaxRetries, bd \in 1..MaxBaseDelay : CallTool(mr, bd)
    /\ UNCHANGED <<storeVars, cmdVars, incVars, stale_q, last_op>>


----------------------------------------------------------------------------
(* The store: cache/database.py *)

SecondsPerHour == 3600
cache_expiry_hours == 24

Sources == {"zhaopin", "linkedin"}

\* datetime.isoformat(): the date part and the time-of-day part of an instant
\* given in hours; the text orders first by date, then by time of day.
IsoFormat(t) == [date |-> t \div 24, time |-> t % 24]

\* datetime.fromisoformat()
FromIsoFormat(iso) == iso.date * 24 + iso.time

\* the key f"last_refresh_{source}" of set_last_refresh / get_last_refresh
LastRefreshKey(source) == <<"last_refresh_", source>>

\* set_metadata: INSERT OR REPLACE INTO cache_metadata (key, value, updated_at)
SetMetadata(meta, key, value, t) ==
    [k \in DOMAIN meta \cup {key} |->
        IF k = key THEN [value |-> value, updated_at |-> IsoFormat(t)]
        ELSE meta[k]]

\* set_last_refresh(source): the marker becomes datetime.now().isoformat()
SetLastRefresh(meta, source, t) ==
    SetMetadata(meta, LastRefreshKey(source), IsoFormat(t), t)

\* get_metadata(key) finds a row
HasMetadata(meta, key) == key \in DOMAIN meta

\* get_last_refresh(source) returns a datetime (not None)
HasLastRefresh(meta, source) == HasMetadata(meta, LastRefreshKey(source))

\* get_last_refresh(source), when the row exists
GetLastRefresh(meta, source) == FromIsoFormat(meta[LastRefreshKey(source)].value)

\* the argument `hours: Optional[int] = None`
NoHours     == [given |-> FALSE, value |-> 0]
Hours(h)    == [given |-> TRUE, value |-> h]

\* `hours or settings.cache_expiry_hours`: None and 0 are both falsy
HoursOrDefault(hours) ==
    IF ~hours.given \/ hours.value = 0 THEN cache_expiry_hours ELSE hours.value

\* is_cache_stale(source, hours) at time t
IsCacheStale(meta, source, hours, t) ==
    LET h == HoursOrDefault(hours)
    IN  IF ~HasLastRefresh(meta, source) THEN TRUE
        ELSE (t - GetLastRefresh(meta, source)) * SecondsPerHour > h * SecondsPerHour


----------------------------------------------------------------------------
(* States in which a part of the program is at rest *)

EmptyTable == [k \in {} |-> 0]

Callers  == 1..NumCallers
NoCaller == NumCallers + 1

NoCommand  == [kind |-> "none"]
NoResult   == [kind |-> "none"]
NoQuestion == [asked |-> FALSE]
NoOp       == [op |-> "none"]

ClientIdle ==
    /\ cpc = "idle"
    /\ max_retries = 0
    /\ base_delay = 0
    /\ attempt = 0
    /\ last_error = NoError
    /\ session_open = 0
    /\ opened = 0
    /\ sleeps = << >>
    /\ attempt_log = << >>
    /\ call_out = NoOutcome

\* a new store, after _init_tables
StoreNew ==
    /\ jobs = {}
    /\ request_tracker = EmptyTable
    /\ cache_metadata = EmptyTable

CmdIdle ==
    /\ cmd = NoCommand
    /\ cpos = "idle"
    /\ todo = << >>
    /\ all_jobs = << >>
    /\ result = NoResult
    /\ log = << >>
    /\ exit_code = 0
    /\ ncmds = 0

IncIdle ==
    /\ ipc = << >>
    /\ db_lock = NoCaller
    /\ pending = << >>
    /\ returned = << >>
    /\ base_count = 0

----------------------------------------------------------------------------
(* Staleness of the cache: set_last_refresh, is_cache_stale and the clock *)

\* the clock advances
Tick ==
    /\ now < MaxTime
    /\ now' = now + 1
    /\ stale_q' = NoQuestion
    /\ UNCHANGED <<jobs, request_tracker, cache_metadata>>
    /\ UNCHANGED <<clientVars, cmdVars, incVars, last_op>>

\* a caller runs set_last_refresh(source)
DoSetLastRefresh ==
    /\ \E source \in Sources :
        cache_metadata' = SetLastRefresh(cache_metadata, source, now)
    /\ stale_q' = NoQuestion
    /\ UNCHANGED <<now, jobs, request_tracker>>
    /\ UNCHANGED <<clientVars, cmdVars, incVars, last_op>>

\* a caller runs is_cache_stale(source, hours); stale_q holds what it returns
AskStale ==
    /\ \E source \in Sources,
          hours \in {NoHours} \cup {Hours(h) : h \in 0..MaxHours} :
        stale_q' = [asked |-> TRUE, source |-> source, hours |-> hours,
                    answer |-> IsCacheStale(cache_metadata, source, hours, now)]
    /\ UNCHANGED storeVars
    /\ UNCHANGED <<clientVars, cmdVars, incVars, last_op>>

InitStale ==
    /\ ClientIdle /\ StoreNew /\ CmdIdle /\ IncIdle
    /\ now = 0
    /\ stale_q = NoQuestion
    /\ last_op = NoOp

NextStale == Tick \/ DoSetLastRefresh \/ AskStale

SpecStale == InitStale /\ [][NextStale]_vars

\* the age of the marker of `source`, in hours
MarkerAge(source) == now - GetLastRefresh(cache_metadata, source)

\* C8: is_cache_stale(source, h) is true exactly when the source has no
\* refresh marker or its marker is more than h hours old, for every
\* threshold h >= 0 the caller passes.
C8_StaleIffOlderThanH ==
    (stale_q.asked /\ stale_q.hours.given) =>
        (stale_q.answer <=>
            (\/ ~HasLastRefresh(cache_metadata, stale_q.source)
             \/ MarkerAge(stale_q.source) > stale_q.hours.value))


----------------------------------------------------------------------------
(* _call_tool called on its own, with any max_retries and base_delay *)

InitClient ==
    /\ ClientIdle /\ StoreNew /\ CmdIdle /\ IncIdle
    /\ now = 0
    /\ stale_q = NoQuestion
    /\ last_op = NoOp

NextClient == DirectCall \/ ClientStep

SpecClient == InitClient /\ [][NextClient]_vars

\* The errors of the model that are transient in the words of the spec: a
\* timeout, a connection error, or a message with a transport keyword.
TransientErrors ==
    { [type |-> "TimeoutError",         msg |-> ""],
      [type |-> "ConnectionResetError", msg |-> "reset by peer"],
      [type |-> "Exception",            msg |-> "Read Timeout"],
      [type |-> "Exception",            msg |-> "Network down"] }

\* The errors of the model that are terminal: everything else.
TerminalErrors ==
    { [type |-> "ValueError",          msg |-> "bad request"],
      [type |-> "Exception",           msg |-> "net work"],
      [type |-> "ClosedResourceError", msg |-> ""] }

\* every attempt made so far has failed, each with a transient error
AllAttemptsFailedTransient ==
    /\ Len(attempt_log) = opened
    /\ \A i \in 1..Len(attempt_log) : attempt_log[i] \in TransientErrors

\* C3: if every attempt fails with a transient error, exactly
\* max_retries + 1 attempts are made and the call then raises
\* MCPConnectionError carrying the error of the final attempt; it never
\* returns a value and never lets the transient error itself escape.
C3_ExhaustionRaisesLastError ==
    (cpc = "done" /\ AllAttemptsFailedTransient) =>
        /\ opened = max_retries + 1
        /\ call_out.kind = "raise"
        /\ call_out.exc = "MCPConnectionError"
        /\ call_out.attempts = max_retries + 1
        /\ call_out.err = attempt_log[Len(attempt_log)]

\* a call with max_retries >= 1 ended after failing transiently every time,
\* the last error differing from the first
C3_Witness ==
    /\ cpc = "done"
    /\ AllAttemptsFailedTransient
    /\ max_retries >= 1
    /\ call_out.exc = "MCPConnectionError"
    /\ attempt_log[1] # attempt_log[Len(attempt_log)]

\* C4: an attempt that fails with a terminal error ends the call at once, on
\* whatever attempt it happens: the same error is re-raised, no further
\* attempt is made, no sleep follows and it is not MCPConnectionError.
C4_TerminalRaisedAtOnce ==
    \A i \in 1..Len(attempt_log) :
        attempt_log[i] \in TerminalErrors =>
            /\ i = Len(attempt_log)
            /\ opened = i
            /\ cpc = "done"
            /\ call_out = Reraised(attempt_log[i])
            /\ call_out.exc # "MCPConnectionError"
            /\ Len(sleeps) = i - 1

\* a terminal error on the third attempt, after two retried failures
C4_Witness ==
    /\ cpc = "done"
    /\ Len(attempt_log) = 3
    /\ attempt_log[3] \in TerminalErrors
    /\ call_out.kind = "raise"

RECURSIVE SumSeq(_)
SumSeq(s) == IF s = << >> THEN 0 ELSE s[1] + SumSeq(Tail(s))

\* C5: the sleep after the failed attempt with zero-based index k lasts
\* base_delay * 2^k and happens only when another attempt follows; a call
\* whose attempts all fail transiently sleeps exactly max_retries times, for
\* base_delay * (2^max_retries - 1) in total.
C5_BackoffSchedule ==
    /\ \A i \in 1..Len(sleeps) : sleeps[i] = base_delay * 2^(i - 1)
    /\ Len(sleeps) <= max_retries
    /\ cpc = "sleep" => attempt < max_retries /\ Len(sleeps) = attempt + 1
    /\ cpc \in {"loop", "session"} => Len(sleeps) = attempt \/ attempt > max_retries
    /\ (cpc = "done" /\ AllAttemptsFailedTransient) =>
          /\ Len(sleeps) = max_retries
          /\ SumSeq(sleeps) = base_delay * (2^max_retries - 1)

\* a call with max_retries = 3 ended after sleeping three times
C5_Witness ==
    /\ cpc = "done"
    /\ AllAttemptsFailedTransient
    /\ max_retries = 3
    /\ Len(sleeps) = 3


----------------------------------------------------------------------------
(* Quota accounting: increment_request_count and get_monthly_usage *)

\* datetime.now().strftime("%Y-%m"), months of 30 days
MonthOf(t) == t \div (30 * 24)

\* INSERT INTO request_tracker (month, requests_count) VALUES (?, ?)
\* ON CONFLICT(month) DO UPDATE SET requests_count = requests_count + ?
\* : the requests_count the statement writes for `month`
UpsertCount(tracker, month, count) ==
    IF month \in DOMAIN tracker THEN tracker[month] + count ELSE count

\* the table with the row of `month` set to `value`
WithCount(tracker, month, value) ==
    [m \in DOMAIN tracker \cup {month} |-> IF m = month THEN value ELSE tracker[m]]

\* SELECT requests_count FROM request_tracker WHERE month = ?, then
\* `row[0] if row else dflt`
SelectCount(tracker, month, dflt) ==
    IF month \in DOMAIN tracker THEN tracker[month] ELSE dflt

\* increment_request_count with INSERT OR REPLACE in place of the upsert: the
\* month's row is overwritten with `count`
IncrementRequestCount_Replace(tracker, t, count) ==
    WithCount(tracker, MonthOf(t), count)

\* increment_request_count(count) run by a lone caller: upsert, commit, select
IncrementRequestCount(tracker, t, count) ==
    WithCount(tracker, MonthOf(t), UpsertCount(tracker, MonthOf(t), count))

\* get_monthly_usage().requests_used
RequestsUsed(tracker, t) == SelectCount(tracker, MonthOf(t), 0)

\* IncUpsert if the caller read the count and wrote count + 1 back with a
\* plain UPDATE in a later transaction: the read takes no write lock
IncUpsert_ReadThenWrite(c) ==
    /\ ipc[c] = "start"
    /\ db_lock' = db_lock
    /\ pending' = [pending EXCEPT ![c] = UpsertCount(request_tracker, MonthOf(now), 1)]
    /\ ipc' = [ipc EXCEPT ![c] = "upserted"]
    /\ UNCHANGED <<returned, base_count, storeVars>>

\* Caller c executes the upsert statement on its own connection. The
\* statement opens a transaction and takes SQLite's write lock, so it waits
\* while another connection holds the lock; its change is not yet committed.
IncUpsert(c) ==
    /\ ipc[c] = "start"
    /\ db_lock = NoCaller
    /\ db_lock' = c
    /\ pending' = [pending EXCEPT ![c] = UpsertCount(request_tracker, MonthOf(now), 1)]
    /\ ipc' = [ipc EXCEPT ![c] = "upserted"]
    /\ UNCHANGED <<returned, base_count, storeVars>>

\* Caller c runs conn.commit(): its change becomes visible, the lock is freed.
IncCommit(c) ==
    /\ ipc[c] = "upserted"
    /\ request_tracker' = WithCount(request_tracker, MonthOf(now), pending[c])
    /\ db_lock' = IF db_lock = c THEN NoCaller ELSE db_lock
    /\ ipc' = [ipc EXCEPT ![c] = "committed"]
    /\ UNCHANGED <<pending, returned, base_count, now, jobs, cache_metadata>>

\* Caller c runs the SELECT and returns `row[0] if row else count`.
IncSelect(c) ==
    /\ ipc[c] = "committed"
    /\ returned' = [returned EXCEPT ![c] = SelectCount(request_tracker, MonthOf(now), 1)]
    /\ ipc' = [ipc EXCEPT ![c] = "done"]
    /\ UNCHANGED <<db_lock, pending, base_count, storeVars>>

DoIncUpsert ==
    /\ \E c \in Callers : IncUpsert(c)
    /\ UNCHANGED <<clientVars, cmdVars, stale_q, last_op>>

DoIncCommit ==
    /\ \E c \in Callers : IncCommit(c)
    /\ UNCHANGED <<clientVars, cmdVars, stale_q, last_op>>

DoIncSelect ==
    /\ \E c \in Callers : IncSelect(c)
    /\ UNCHANGED <<clientVars, cmdVars, stale_q, last_op>>

\* the month's row is absent, or holds a count left by earlier commands
InitInc ==
    /\ ClientIdle /\ CmdIdle
    /\ now = 0
    /\ stale_q = NoQuestion
    /\ last_op = NoOp
    /\ jobs = {}
    /\ cache_metadata = EmptyTable
    /\ \/ request_tracker = EmptyTable /\ base_count = 0
       \/ \E n \in 0..MaxCount :
            /\ request_tracker = WithCount(EmptyTable, MonthOf(now), n)
            /\ base_count = n
    /\ ipc = [c \in Callers |-> "start"]
    /\ db_lock = NoCaller
    /\ pending = [c \in Callers |-> 0]
    /\ returned = [c \in Callers |-> 0]

NextInc == DoIncUpsert \/ DoIncCommit \/ DoIncSelect

SpecInc == InitInc /\ [][NextInc]_vars

\* the callers whose increment has been committed
Committed == {c \in Callers : ipc[c] \in {"committed", "done"}}

\* C2: N callers running increment_request_count(1) concurrently in one
\* month, interleaved statement by statement, leave requests_count exactly N
\* higher than it started: no increment is lost, none is applied twice.
C2_NoLostIncrement ==
    /\ RequestsUsed(request_tracker, now) = base_count + Cardinality(Committed)
    /\ (\A c \in Callers : ipc[c] = "done") =>
           RequestsUsed(request_tracker, now) = base_count + NumCallers

\* all callers are done, and two of them had committed before either selected
C2_Witness ==
    /\ \A c \in Callers : ipc[c] = "done"
    /\ NumCallers >= 2
    /\ \E c \in Callers : returned[c] > base_count + 1
    /\ \E c, d \in Callers : c # d /\ returned[c] = returned[d]


----------------------------------------------------------------------------
(* The jobs table: save_job, save_jobs *)

Urls   == {ZUrl1, LUrl3}
Titles == {"Python Engineer", "Java Developer"}

\* BaseScraper.generate_job_id: hashlib.md5(url.encode()).hexdigest()[:12]
generate_job_id(url) ==
    CASE url = ZUrl1 -> "998cca5d3dce"
      [] url = ZUrl2 -> "ce7528475f55"
      [] url = LUrl3 -> "e224e14340f8"
      [] url = LUrl4 -> "18a5f3ae0288"

\* the source whose listings live under a url
SourceOfUrl(url) == IF url = LUrl3 THEN "linkedin" ELSE "zhaopin"

\* a JobPosting as the parsers build it: id from the url, fetched_at = now()
JobPosting(url, title, location, source, t) ==
    [id |-> generate_job_id(url), title |-> title, location |-> location,
     url |-> url, source |-> source, fetched_at |-> t, is_active |-> TRUE]

\* the tuple of values save_job / save_jobs bind to the INSERT
RowOf(job) ==
    [id |-> job.id, title |-> job.title, location |-> job.location,
     url |-> job.url, source |-> job.source,
     fetched_at |-> IsoFormat(job.fetched_at),
     is_active |-> IF job.is_active THEN 1 ELSE 0]

\* _row_to_job
RowToJob(row) ==
    [id |-> row.id, title |-> row.title, location |-> row.location,
     url |-> row.url, source |-> row.source,
     fetched_at |-> FromIsoFormat(row.fetched_at),
     is_active |-> row.is_active # 0]

\* InsertOrReplace if the statement were INSERT OR IGNORE: a conflicting
\* new row is dropped and the stored row stays
InsertOrReplace_Ignore(table, row) ==
    IF \E r \in table : r.id = row.id \/ r.url = row.url
    THEN table
    ELSE table \cup {row}

\* INSERT OR REPLACE INTO jobs: the rows that conflict with the new row on
\* the primary key (id) or on the UNIQUE column (url) are deleted first
InsertOrReplace(table, row) ==
    {r \in table : r.id # row.id /\ r.url # row.url} \cup {row}

\* save_job(job)
SaveJob(table, job) == InsertOrReplace(table, RowOf(job))

\* save_jobs(jobs): one INSERT OR REPLACE per job, in list order, one commit
RECURSIVE SaveJobs(_, _)
SaveJobs(table, batch) ==
    IF batch = << >> THEN table
    ELSE SaveJobs(InsertOrReplace(table, RowOf(Head(batch))), Tail(batch))

\* the JobPostings a parser can build at time t
PostingsAt(t) ==
    {JobPosting(u, ti, "Beijing", SourceOfUrl(u), t) : u \in Urls, ti \in Titles}

\* the lists of at most MaxBatch JobPostings built at time t
BatchesAt(t) ==
    UNION {[1..n -> PostingsAt(t)] : n \in 0..MaxBatch}

\* the rows of `table` stored for the listings of `batch`
StoredFor(table, batch) ==
    {r \in table : \E i \in 1..Len(batch) : r.url = batch[i].url}

\* the clock advances between saves
TickJobs ==
    /\ now < MaxJobTime
    /\ now' = now + 1
    /\ last_op' = NoOp
    /\ UNCHANGED <<jobs, request_tracker, cache_metadata>>
    /\ UNCHANGED <<clientVars, cmdVars, incVars, stale_q>>

\* a caller runs save_job(job)
DoSaveJob ==
    /\ \E job \in PostingsAt(now) :
        /\ jobs' = SaveJob(jobs, job)
        /\ last_op' = [op |-> "save_job", batch |-> <<job>>,
                       before |-> StoredFor(jobs, <<job>>)]
    /\ UNCHANGED <<now, request_tracker, cache_metadata>>
    /\ UNCHANGED <<clientVars, cmdVars, incVars, stale_q>>

\* a caller runs save_jobs(batch)
DoSaveJobs ==
    /\ \E batch \in BatchesAt(now) :
        /\ jobs' = SaveJobs(jobs, batch)
        /\ last_op' = [op |-> "save_jobs", batch |-> batch,
                       before |-> StoredFor(jobs, batch)]
    /\ UNCHANGED <<now, request_tracker, cache_metadata>>
    /\ UNCHANGED <<clientVars, cmdVars, incVars, stale_q>>

InitJobs ==
    /\ ClientIdle /\ StoreNew /\ CmdIdle /\ IncIdle
    /\ now = 0
    /\ stale_q = NoQuestion
    /\ last_op = NoOp

NextJobs == TickJobs \/ DoSaveJob \/ DoSaveJobs

SpecJobs == InitJobs /\ [][NextJobs]_vars

\* the stored rows of the listing at `url`
RowsOfUrl(url) == {r \in jobs : r.url = url \/ r.id = generate_job_id(url)}

\* position i holds the last save of its listing within the batch
IsLastSaveInBatch(batch, i) ==
    \A k \in (i + 1)..Len(batch) : batch[k].url # batch[i].url

\* C7: saving the same job (same url, hence same id) twice, in one batch or
\* in separate calls, leaves exactly one stored row for it, holding the
\* fields of the later save.
C7_UpsertIdempotent ==
    /\ \A u \in Urls : Cardinality(RowsOfUrl(u)) <= 1
    /\ last_op.op \in {"save_job", "save_jobs"} =>
          \A i \in 1..Len(last_op.batch) :
              IsLastSaveInBatch(last_op.batch, i) =>
                  RowsOfUrl(last_op.batch[i].url) = {RowOf(last_op.batch[i])}

\* a listing stored by an earlier call is saved twice more in one batch, each
\* time with other fields
C7_Witness ==
    /\ last_op.op = "save_jobs"
    /\ Len(last_op.batch) = 2
    /\ last_op.batch[1].url = last_op.batch[2].url
    /\ last_op.batch[1].title # last_op.batch[2].title
    /\ \E r \in last_op.before :
          /\ r.url = last_op.batch[1].url
          /\ r.title # last_op.batch[2].title
          /\ r.fetched_at # IsoFormat(last_op.batch[2].fetched_at)


----------------------------------------------------------------------------
(* The scrapers: ZhaopinScraper.search, LinkedInScraper.search *)

DefaultMaxRetries == 3
DefaultBaseDelay  == 1
ZhaopinFullPage   == 15
LinkedInFullPage  == 10

\* the text of an exception: str(e)
PlainText(msg) == [head |-> "", attempts |-> 0, tail |-> msg]

\* str(MCPConnectionError(f"Failed to connect to MCP server after {n} attempts. Last error: {e}"))
ConnectionFailedText(n, msg) ==
    [head |-> "Failed to connect to MCP server", attempts |-> n, tail |-> msg]

\* str(e) of the exception _call_tool raised
StrOfRaised(out) ==
    IF out.exc = "MCPConnectionError"
    THEN ConnectionFailedText(out.attempts, out.err.msg)
    ELSE PlainText(out.err.msg)

\* str(e) of an exception thrown by parse_search_results
ParseFailureText == PlainText("parse failure")

\* ScraperResult.error: None, or a string
NoErrorField     == [is_none |-> TRUE,  text |-> PlainText("")]
ErrorField(text) == [is_none |-> FALSE, text |-> text]

\* `if result.error:`: None and "" are falsy
ErrorIsTruthy(error) == ~error.is_none /\ error.text # PlainText("")

\* the link pattern of each parser: zhaopin.com/jobdetail/..., or /jobs/view/
UrlMatches(name, url) ==
    IF name = "zhaopin" THEN url \in {ZUrl1, ZUrl2}
    ELSE IF name = "linkedin" THEN url = LUrl3
    ELSE FALSE

\* parse_search_results of scraper `name` on a page text, at time t
RECURSIVE ParseBlocks(_, _, _)
ParseBlocks(name, page, t) ==
    IF page = << >> THEN << >>
    ELSE LET b    == Head(page)
             rest == ParseBlocks(name, Tail(page), t)
         IN  IF UrlMatches(name, b.url)
             THEN <<JobPosting(b.url, b.title, b.location, name, t)>> \o rest
             ELSE rest

ParseSearchResults(name, text, t) == ParseBlocks(name, text.page, t)

\* location.lower(); "zhongguo" below stands for the two-character Chinese
\* name of the country in the source's list
LocationLower(location) ==
    CASE location = "Beijing" -> "beijing"
      [] location = "China"   -> "china"

\* `any(pattern in job.location.lower() for pattern in patterns)`, the
\* patterns being those of location_patterns for location.lower()
LocationMatches(job_location, location) ==
    CASE LocationLower(location) = "beijing" ->
            job_location \in {"Beijing", "Beijing, China"}
      [] LocationLower(location) = "china" ->
            job_location \in {"Beijing, China", "Shanghai, China"}

\* LinkedInScraper._filter_by_location
RECURSIVE FilterByLocation(_, _)
FilterByLocation(js, location) ==
    IF js = << >> THEN << >>
    ELSE IF LocationMatches(Head(js).location, location)
         THEN <<Head(js)>> \o FilterByLocation(Tail(js), location)
         ELSE FilterByLocation(Tail(js), location)

\* the ScraperResult of the except branch of search
ErrorResult(name, text) ==
    [kind |-> "result", jobs |-> << >>, total_count |-> 0, page |-> 1,
     has_more |-> FALSE, source |-> name, error |-> ErrorField(text)]

\* the ScraperResult of the try branch of search
JobsResult(name, js, full_page) ==
    [kind |-> "result", jobs |-> js, total_count |-> Len(js), page |-> 1,
     has_more |-> Len(js) >= full_page, source |-> name, error |-> NoErrorField]

\* search lets the exception escape (no scraper does)
Escaped(name, text) ==
    [kind |-> "raise", jobs |-> << >>, total_count |-> 0, page |-> 1,
     has_more |-> FALSE, source |-> name, error |-> ErrorField(text)]

\* the try branch of search: parse, (LinkedIn) filter by location, wrap
SearchTry(name, out, location, t) ==
    IF name = "zhaopin"
    THEN JobsResult(name, ParseSearchResults(name, out.text, t), ZhaopinFullPage)
    ELSE LET parsed == ParseSearchResults(name, out.text, t)
             kept   == IF LocationLower(location) \notin {"china", "zhongguo"}
                       THEN FilterByLocation(parsed, location)
                       ELSE parsed
         IN  JobsResult(name, kept, LinkedInFullPage)

\* ScraperSearch if search had no try / except
ScraperSearch_NoCatch(name, out, parser_fails, location, t) ==
    IF out.kind = "raise" THEN Escaped(name, StrOfRaised(out))
    ELSE IF parser_fails THEN Escaped(name, ParseFailureText)
    ELSE SearchTry(name, out, location, t)

\* ZhaopinScraper.search / LinkedInScraper.search, given how scrape_url
\* ended (out) and whether the parsing that follows throws
ScraperSearch(name, out, parser_fails, location, t) ==
    IF out.kind = "raise" THEN ErrorResult(name, StrOfRaised(out))
    ELSE IF parser_fails THEN ErrorResult(name, ParseFailureText)
    ELSE SearchTry(name, out, location, t)

----------------------------------------------------------------------------
(* The commands: CLI search and refresh (main.py), TUI search and refresh
   (tui/app.py) *)

Query    == "python"
Location == "Beijing"

\* title LIKE '%query%' (LIKE ignores the case of ASCII letters); the
\* company, description and tags of the modelled rows never match the query
LikeMatch(query, title) ==
    CASE query = "python" -> title \in {"Python Engineer", "Senior Python Engineer"}
      [] OTHER -> FALSE

\* search_jobs(query, source): source "" stands for None
SearchJobs(table, query, source) ==
    {r \in table : /\ r.is_active = 1
                   /\ (source = "" \/ r.source = source)
                   /\ LikeMatch(query, r.title)}

\* get_jobs(): the active rows
GetJobs(table) == {r \in table : r.is_active = 1}

\* RequestStats.requests_remaining
RequestsRemaining(used) ==
    IF monthly_request_limit - used > 0 THEN monthly_request_limit - used ELSE 0

\* check_rate_limit: False only when 80% is reached and nothing remains
CheckRateLimit(used) ==
    ~(used * 10 >= monthly_request_limit * 8 /\ RequestsRemaining(used) <= 0)

\* scrapers_to_use of _search_async; platform "" stands for None
CliSearchScrapers(platform) ==
    IF platform = "all" THEN <<"zhaopin", "linkedin">>
    ELSE IF platform # "" THEN <<platform>>
    ELSE <<"zhaopin">>

\* platforms_to_refresh of _refresh_async
CliRefreshPlatforms(platform) ==
    IF platform # "" THEN <<platform>> ELSE <<"zhaopin">>

\* scrapers_to_use of do_search and do_refresh
TuiScrapers(platform) ==
    IF platform = "all" THEN <<"zhaopin", "linkedin">> ELSE <<platform>>

\* the scraper names for which the loop body of a command calls search
Fetches(kind, name) ==
    IF kind = "cli_refresh" THEN name = "zhaopin"
    ELSE name \in {"zhaopin", "linkedin"}

CliKinds == {"cli_search", "cli_refresh"}

\* a command begins: its record, with the quota and the markers it found
Command(kind, platform, no_cache, path) ==
    [kind |-> kind, platform |-> platform, no_cache |-> no_cache, path |-> path,
     used0 |-> RequestsUsed(request_tracker, now + 1), meta0 |-> cache_metadata]

\* what every command start does besides choosing its path
BeginCommand ==
    /\ cpos = "idle"
    /\ ncmds < MaxCommands
    /\ ncmds' = ncmds + 1
    /\ now' = now + 1
    /\ log' = << >>
    /\ all_jobs' = << >>
    /\ result' = NoResult
    /\ UNCHANGED <<jobs, request_tracker, cache_metadata>>
    /\ UNCHANGED <<clientVars, incVars, stale_q, last_op>>

\* CliSearch if it went on to the scraping loop after the limit was reached
CliSearch_ScrapeWhenLimited ==
    /\ BeginCommand
    /\ \E platform \in {"", "zhaopin", "linkedin", "all", "job51"},
          no_cache \in BOOLEAN :
        LET cached == SearchJobs(jobs, Query, platform)
        IN  IF ~no_cache /\ cached # {}
            THEN /\ cmd' = Command("cli_search", platform, no_cache, "cache")
                 /\ cpos' = "idle" /\ todo' = << >> /\ exit_code' = 0
            ELSE IF ~CheckRateLimit(RequestsUsed(request_tracker, now + 1))
            THEN /\ cmd' = Command("cli_search", platform, no_cache, "rate_limited")
                 /\ cpos' = "loop" /\ todo' = CliSearchScrapers(platform)
                 /\ exit_code' = 0
            ELSE /\ cmd' = Command("cli_search", platform, no_cache, "scrape")
                 /\ cpos' = "loop" /\ todo' = CliSearchScrapers(platform)
                 /\ exit_code' = 0

\* _search_async up to the scraping loop: cache, then rate limit
CliSearch ==
    /\ BeginCommand
    /\ \E platform \in {"", "zhaopin", "linkedin", "all", "job51"},
          no_cache \in BOOLEAN :
        LET cached == SearchJobs(jobs, Query, platform)
        IN  IF ~no_cache /\ cached # {}
            THEN /\ cmd' = Command("cli_search", platform, no_cache, "cache")
                 /\ cpos' = "idle" /\ todo' = << >> /\ exit_code' = 0
            ELSE IF ~CheckRateLimit(RequestsUsed(request_tracker, now + 1))
            THEN /\ cmd' = Command("cli_search", platform, no_cache, "rate_limited")
                 /\ cpos' = "idle" /\ todo' = << >>
                 /\ exit_code' = IF GetJobs(jobs) # {} THEN 0 ELSE 1
            ELSE /\ cmd' = Command("cli_search", platform, no_cache, "scrape")
                 /\ cpos' = "loop" /\ todo' = CliSearchScrapers(platform)
                 /\ exit_code' = 0

\* _refresh_async up to the loop
CliRefresh ==
    /\ BeginCommand
    /\ \E platform \in {"", "zhaopin", "linkedin"} :
        /\ cmd' = Command("cli_refresh", platform, TRUE, "scrape")
        /\ cpos' = "loop" /\ todo' = CliRefreshPlatforms(platform)
        /\ exit_code' = 0

\* do_search up to the loop: page 1 tries the cache first
TuiSearch ==
    /\ BeginCommand
    /\ \E platform \in {"zhaopin", "linkedin", "all"}, page \in {1, 2} :
        LET source_filter == IF platform = "all" THEN "" ELSE platform
            cached == SearchJobs(jobs, Query, source_filter)
        IN  IF page = 1 /\ cached # {}
            THEN /\ cmd' = Command("tui_search", platform, FALSE, "cache")
                 /\ cpos' = "idle" /\ todo' = << >> /\ exit_code' = 0
            ELSE /\ cmd' = Command("tui_search", platform, page # 1, "scrape")
                 /\ cpos' = "loop" /\ todo' = TuiScrapers(platform)
                 /\ exit_code' = 0

\* do_refresh up to the loop
TuiRefresh ==
    /\ BeginCommand
    /\ \E platform \in {"zhaopin", "linkedin", "all"} :
        /\ cmd' = Command("tui_refresh", platform, TRUE, "scrape")
        /\ cpos' = "loop" /\ todo' = TuiScrapers(platform)
        /\ exit_code' = 0

\* the loop body reaches scraper.search, which calls
\* mcp.scrape_as_markdown -> _call_tool with the default arguments
CmdStartFetch ==
    /\ cpos = "loop"
    /\ todo # << >>
    /\ Fetches(cmd.kind, Head(todo))
    /\ CallTool(DefaultMaxRetries, DefaultBaseDelay)
    /\ cpos' = "fetching"
    /\ UNCHANGED <<cmd, todo, all_jobs, result, log, exit_code, ncmds>>
    /\ UNCHANGED <<storeVars, incVars, stale_q, last_op>>

\* the loop body for a name the command has no scraper for
CmdSkip ==
    /\ cpos = "loop"
    /\ todo # << >>
    /\ ~Fetches(cmd.kind, Head(todo))
    /\ log' = Append(log, [name |-> Head(todo), handed |-> FALSE, failed |-> FALSE,
                           exc |-> NoErrorField, attempts |-> 0, outcome |-> "skipped",
                           jobs |-> << >>])
    /\ todo' = Tail(todo)
    /\ UNCHANGED <<cmd, cpos, all_jobs, result, exit_code, ncmds>>
    /\ UNCHANGED <<storeVars, clientVars, incVars, stale_q, last_op>>

\* how the loop body classifies a ScraperResult
OutcomeOf(r) ==
    IF r.kind = "raise" THEN "raised"
    ELSE IF ErrorIsTruthy(r.error) THEN "error"
    ELSE IF r.jobs # << >> THEN "jobs"
    ELSE "empty"

\* TrackerAfterFetch if every attempt of the client were billed
TrackerAfterFetch_PerAttempt(r) ==
    IF r.kind = "raise" THEN request_tracker
    ELSE IncrementRequestCount(request_tracker, now, opened)

\* request_tracker after the loop body: every command bills one request
\* once search has returned, and none if search raised
TrackerAfterFetch(r) ==
    IF r.kind = "raise" THEN request_tracker
    ELSE IncrementRequestCount(request_tracker, now, 1)

\* all_jobs after the loop body
AllJobsAfterFetch(kind, r) ==
    CASE kind = "cli_search" ->
            IF OutcomeOf(r) = "jobs" THEN all_jobs \o r.jobs ELSE all_jobs
      [] kind = "cli_refresh" -> all_jobs
      [] kind \in {"tui_search", "tui_refresh"} ->
            IF r.kind # "raise" /\ r.jobs # << >> THEN all_jobs \o r.jobs ELSE all_jobs

\* table jobs after the loop body: only the CLI refresh saves inside the loop
JobsAfterFetch(kind, r) ==
    IF kind = "cli_refresh" /\ OutcomeOf(r) = "jobs"
    THEN SaveJobs(jobs, r.jobs)
    ELSE jobs

\* cache_metadata after the loop body
MetaAfterFetch(kind, name, r) ==
    CASE kind = "cli_refresh" ->
            IF OutcomeOf(r) = "jobs"
            THEN SetLastRefresh(cache_metadata, name, now) ELSE cache_metadata
      [] kind = "tui_refresh" ->
            IF r.kind # "raise"
            THEN SetLastRefresh(cache_metadata, name, now) ELSE cache_metadata
      [] kind \in {"cli_search", "tui_search"} -> cache_metadata

\* scraper.search has returned: the rest of the loop body
CmdFetchDone ==
    /\ cpos = "fetching"
    /\ cpc = "done"
    /\ \E parser_fails \in (IF call_out.kind = "return" THEN BOOLEAN ELSE {FALSE}) :
        LET name == Head(todo)
            r    == ScraperSearch(name, call_out, parser_fails, Location, now)
        IN  /\ result' = r
            /\ request_tracker' = TrackerAfterFetch(r)
            /\ all_jobs' = AllJobsAfterFetch(cmd.kind, r)
            /\ jobs' = JobsAfterFetch(cmd.kind, r)
            /\ cache_metadata' = MetaAfterFetch(cmd.kind, name, r)
            /\ log' = Append(log,
                   [name |-> name, handed |-> TRUE,
                    failed |-> call_out.kind = "raise" \/ parser_fails,
                    exc |-> IF call_out.kind = "raise"
                            THEN ErrorField(StrOfRaised(call_out))
                            ELSE IF parser_fails THEN ErrorField(ParseFailureText)
                            ELSE NoErrorField,
                    attempts |-> opened, outcome |-> OutcomeOf(r),
                    jobs |-> r.jobs])
    /\ todo' = Tail(todo)
    /\ cpos' = "loop"
    /\ cpc' = "idle"
    /\ max_retries' = 0 /\ base_delay' = 0 /\ attempt' = 0
    /\ last_error' = NoError /\ session_open' = 0 /\ opened' = 0
    /\ sleeps' = << >> /\ attempt_log' = << >> /\ call_out' = NoOutcome
    /\ UNCHANGED <<now, cmd, exit_code, ncmds>>
    /\ UNCHANGED <<incVars, stale_q, last_op>>

\* after the loop: the CLI search and the TUI commands save what they
\* collected; the CLI search then marks "zhaopin" refreshed
CmdFinish ==
    /\ cpos = "loop"
    /\ todo = << >>
    /\ cpos' = "idle"
    /\ IF cmd.kind # "cli_refresh" /\ all_jobs # << >>
       THEN jobs' = SaveJobs(jobs, all_jobs)
       ELSE jobs' = jobs
    /\ IF cmd.kind = "cli_search" /\ all_jobs # << >>
       THEN cache_metadata' = SetLastRefresh(cache_metadata, "zhaopin", now)
       ELSE cache_metadata' = cache_metadata
    /\ UNCHANGED <<now, request_tracker>>
    /\ UNCHANGED <<cmd, todo, all_jobs, result, log, exit_code, ncmds>>
    /\ UNCHANGED <<clientVars, incVars, stale_q, last_op>>

\* a fresh database (_init_db has created the empty tables), no command yet
Init ==
    /\ ClientIdle /\ CmdIdle /\ IncIdle
    /\ now = 0
    /\ jobs = {}
    /\ cache_metadata = EmptyTable
    /\ request_tracker = EmptyTable
    /\ stale_q = NoQuestion
    /\ last_op = NoOp

Next ==
    \/ CliSearch \/ CliRefresh \/ TuiSearch \/ TuiRefresh
    \/ CmdStartFetch \/ CmdSkip \/ CmdFetchDone \/ CmdFinish
    \/ OpenSession \/ SessionReturns \/ SessionFails \/ SleepDone \/ Exhausted

Spec == Init /\ [][Next]_vars


----------------------------------------------------------------------------
(* Texts and regular expressions (utils/parser.py, scrapers/zhaopin.py)

   A text is a sequence of tokens: a number as written (its digits before
   the point and, if it has one, its digit after the point) or a symbol.
   Symbols with names in Latin letters stand for the Chinese words of the
   source: "wan" (the 10k unit), "yuan", "nian" (year), "yishang" (or
   more), "zhi" and "dao" (to), "jingyan buxian" (no experience needed). *)

Num(whole, frac) == [t |-> "num", whole |-> whole, frac |-> frac, s |-> ""]
Whole(n)         == Num(n, << >>)
Sym(c)           == [t |-> "sym", whole |-> 0, frac |-> << >>, s |-> c]

IsNum(tok)    == tok.t = "num"
IsSym(tok, S) == tok.t = "sym" /\ tok.s \in S

\* elements of a pattern
Dec      == [e |-> "dec",   set |-> {}]   \* (\d+(?:\.\d+)?), captured
Digits   == [e |-> "int",   set |-> {}]   \* (\d+), captured
Digits4  == [e |-> "int4",  set |-> {}]   \* (\d{4,6}) or (\d{4,}), captured
Spaces   == [e |-> "sp",    set |-> {}]   \* \s*
One(S)   == [e |-> "one",   set |-> S]    \* one symbol of S
Opt(S)   == [e |-> "opt",   set |-> S]    \* [S]?

\* the separators [-~ zhi dao] of the salary patterns
SalarySeps == {"-", "~", "zhi", "dao"}

NoMatch == [ok |-> FALSE, from |-> 0, to |-> 0, caps |-> << >>]

\* a pattern all of whose elements match the empty text
Nullable(pat) == \A k \in DOMAIN pat : pat[k].e \in {"sp", "opt"}

\* first position from i on that holds no space
RECURSIVE SkipSpaces(_, _)
SkipSpaces(toks, i) ==
    IF i <= Len(toks) /\ IsSym(toks[i], {" "}) THEN SkipSpaces(toks, i + 1) ELSE i

\* re.match of pattern pat on toks at position i; `first` says that the
\* match may start inside the token (after its point)
RECURSIVE MatchFrom(_, _, _, _)
MatchFrom(toks, i, pat, first) ==
    IF pat = << >> THEN [ok |-> TRUE, from |-> i, to |-> i - 1, caps |-> << >>]
    ELSE
    LET p    == Head(pat)
        here == i <= Len(toks)
        \* the rest of the pattern after taking the whole token i
        rest == MatchFrom(toks, i + 1, Tail(pat), FALSE)
        took(cap) == IF rest.ok
                     THEN [rest EXCEPT !.caps = <<cap>> \o rest.caps]
                     ELSE NoMatch
    IN  CASE p.e = "sp"  -> MatchFrom(toks, SkipSpaces(toks, i), Tail(pat), FALSE)
          [] p.e = "opt" -> IF here /\ IsSym(toks[i], p.set)
                            THEN rest
                            ELSE MatchFrom(toks, i, Tail(pat), FALSE)
          [] p.e = "one" -> IF here /\ IsSym(toks[i], p.set) THEN rest ELSE NoMatch
          [] p.e = "dec" -> IF here /\ IsNum(toks[i]) THEN took(toks[i]) ELSE NoMatch
          [] p.e \in {"int", "int4"} ->
                IF ~(here /\ IsNum(toks[i])) THEN NoMatch
                ELSE IF toks[i].frac = << >>
                THEN IF p.e = "int4" /\ toks[i].whole < 1000 THEN NoMatch
                     ELSE took(Whole(toks[i].whole))
                \* the digits before the point, when nothing but optional
                \* elements follows in the pattern
                ELSE IF Nullable(Tail(pat))
                THEN IF p.e = "int4" /\ toks[i].whole < 1000 THEN NoMatch
                     ELSE [ok |-> TRUE, from |-> i, to |-> i,
                           caps |-> <<Whole(toks[i].whole)>>]
                \* the digit after the point, when the match starts there
                ELSE IF first /\ p.e = "int" THEN took(Whole(toks[i].frac[1]))
                ELSE NoMatch

\* re.search: the leftmost match
Search(toks, pat) ==
    LET starts == {i \in 1..Len(toks) : MatchFrom(toks, i, pat, TRUE).ok}
    IN  IF starts = {} THEN NoMatch
        ELSE LET i == CHOOSE k \in starts : \A j \in starts : k <= j
                 m == MatchFrom(toks, i, pat, TRUE)
             IN  [m EXCEPT !.from = i]


\* Optional[str] and Optional[int]
NoneStr    == [is_none |-> TRUE,  toks |-> << >>]
Str(toks)  == [is_none |-> FALSE, toks |-> toks]
NoneInt    == [is_none |-> TRUE,  v |-> 0]
SomeInt(n) == [is_none |-> FALSE, v |-> n]

\* `if not text`: None and "" are falsy
Falsy(str) == str.is_none \/ str.toks = << >>

\* int(float(g) * 10) for a number with at most one digit after the point
TimesTen(tok) == tok.whole * 10 + (IF tok.frac = << >> THEN 0 ELSE tok.frac[1])

\* f"{low}k-{high}k"
KRange(low, high) == <<low, Sym("k"), Sym("-"), high, Sym("k")>>

WanUnits == {"wan", "w", "W"}
KUnits   == {"k", "K"}

\* extract_salary(text)
extract_salary(toks) ==
    LET chinese == Search(toks, <<Dec, Spaces, One(WanUnits), Spaces,
                                  One(SalarySeps), Spaces, Dec, Spaces,
                                  Opt(WanUnits)>>)
        kmatch  == Search(toks, <<Dec, Spaces, One(KUnits), Spaces,
                                  One(SalarySeps), Spaces, Dec, Spaces,
                                  Opt(KUnits)>>)
        number  == Search(toks, <<Digits4, Spaces, One(SalarySeps), Spaces,
                                  Digits4>>)
    IN  IF toks = << >> THEN NoneStr
        ELSE IF chinese.ok
        THEN Str(KRange(Whole(TimesTen(chinese.caps[1])),
                        Whole(TimesTen(chinese.caps[2]))))
        ELSE IF kmatch.ok
        THEN Str(KRange(kmatch.caps[1], kmatch.caps[2]))
        ELSE IF number.ok
        THEN Str(KRange(Whole(number.caps[1].whole \div 1000),
                        Whole(number.caps[2].whole \div 1000)))
        ELSE NoneStr

\* parse_salary_min(salary_range)
parse_salary_min(str) ==
    LET first == Search(str.toks, <<Dec, Spaces, Opt(KUnits), Spaces,
                                    One(SalarySeps)>>)
    IN  IF Falsy(str) THEN NoneInt
        ELSE IF first.ok THEN SomeInt(first.caps[1].whole)
        ELSE IF IsNum(str.toks[1]) THEN SomeInt(str.toks[1].whole)
        ELSE NoneInt

\* the words in which "entry" occurs when lowered
EntryWords == {"Entry Level", "entry level", "Entry"}

\* a parsed experience: None, or (min, max) with max None for "N+"
NoRange          == [is_none |-> TRUE,  min |-> 0, max |-> NoneInt]
Range(lo, hi)    == [is_none |-> FALSE, min |-> lo, max |-> SomeInt(hi)]
OpenRange(lo)    == [is_none |-> FALSE, min |-> lo, max |-> NoneInt]

\* parse_experience_years trying the lone number before the "N+" pattern
parse_experience_years_NumberFirst(str) ==
    LET toks   == str.toks
        range  == Search(toks, <<Digits, Spaces, One({"-", "~", "t", "o"}),
                                 Spaces, Digits>>)
        number == Search(toks, <<Digits>>)
    IN  IF Falsy(str) THEN NoRange
        ELSE IF (\E i \in DOMAIN toks : IsSym(toks[i], EntryWords))
                \/ toks = <<Whole(0)>>
        THEN Range(0, 0)
        ELSE IF range.ok THEN Range(range.caps[1].whole, range.caps[2].whole)
        ELSE IF number.ok THEN Range(number.caps[1].whole, number.caps[1].whole)
        ELSE NoRange

\* parse_experience_years(exp_str)
parse_experience_years(str) ==
    LET toks   == str.toks
        range  == Search(toks, <<Digits, Spaces, One({"-", "~", "t", "o"}),
                                 Spaces, Digits>>)
        plus   == Search(toks, <<Digits, Spaces, One({"+"})>>)
        number == Search(toks, <<Digits>>)
    IN  IF Falsy(str) THEN NoRange
        ELSE IF (\E i \in DOMAIN toks : IsSym(toks[i], EntryWords))
                \/ toks = <<Whole(0)>>
        THEN Range(0, 0)
        ELSE IF range.ok THEN Range(range.caps[1].whole, range.caps[2].whole)
        ELSE IF plus.ok THEN OpenRange(plus.caps[1].whole)
        ELSE IF number.ok THEN Range(number.caps[1].whole, number.caps[1].whole)
        ELSE NoRange

\* the no_req_patterns of extract_experience, in any case
NoReqWords == {"jingyan buxian", "buxian jingyan", "wu jingyan yaoqiu",
               "no experience", "No Experience", "entry level", "Entry Level"}

\* f"{a}-{b} years", f"{a}+ years", "Entry Level"
YearsRange(a, b) == <<a, Sym("-"), b, Sym(" "), Sym("years")>>
YearsPlus(a)     == <<a, Sym("+"), Sym(" "), Sym("years")>>
EntryLevel       == <<Sym("Entry Level")>>

\* extract_experience(text)
extract_experience(toks) ==
    LET chinese == Search(toks, <<Digits, Spaces, One(SalarySeps), Spaces,
                                  Digits, Spaces, One({"nian"})>>)
        plus    == Search(toks, <<Digits, Spaces, One({"nian"}), One({"yishang"})>>)
        english == Search(toks, <<Digits, Spaces, One({"-", "~", "t", "o"}),
                                  Spaces, Digits, Spaces,
                                  One({"year", "years", "Years"})>>)
    IN  IF toks = << >> THEN NoneStr
        ELSE IF \E i \in DOMAIN toks : IsSym(toks[i], NoReqWords)
        THEN Str(EntryLevel)
        ELSE IF chinese.ok THEN Str(YearsRange(chinese.caps[1], chinese.caps[2]))
        ELSE IF plus.ok THEN Str(YearsPlus(plus.caps[1]))
        ELSE IF english.ok THEN Str(YearsRange(english.caps[1], english.caps[2]))
        ELSE NoneStr


\* the tech_keywords of extract_tags this model keeps, in the source's order
TechKeywords ==
    <<"Python", "Java", "JavaScript", "Go", "Golang", "Django", "Spring",
      "SpringBoot", "Docker", "Kubernetes", "K8s", "MySQL", "Redis", "Linux">>

\* the words in Latin letters that occur in the modelled page texts
PageWords ==
    {"python", "Python", "PYTHON", "golang", "Golang", "go", "Go", "K8S", "K8s",
     "Oracle", "JAVA", "Java", "java", "javascript", "JavaScript", "django",
     "Django", "redis", "Redis", "docker", "Docker", "spring", "Spring",
     "springboot", "SpringBoot", "kubernetes", "Kubernetes", "mysql", "MySQL",
     "linux", "Linux", "rust", "k8s", "oracle", " "}

\* the characters of one token: a digit for a number, "#" for a symbol that
\* stands for Chinese text
TokChars(tok) ==
    IF IsNum(tok) THEN <<"0">>
    ELSE IF tok.s \in PageWords THEN CharsOf(tok.s)
    ELSE <<"#">>

\* the characters of a text
RECURSIVE TextChars(_)
TextChars(toks) ==
    IF toks = << >> THEN << >> ELSE TokChars(Head(toks)) \o TextChars(Tail(toks))

\* the normalisation of extract_tags
NormalizedTag(tag) ==
    LET low == Lower(CharsOf(tag))
    IN  IF low = CharsOf("golang") THEN "Go"
        ELSE IF low = CharsOf("k8s") THEN "Kubernetes"
        ELSE IF low = CharsOf("springboot") THEN "Spring Boot"
        ELSE tag

\* `x in list`
InList(x, list) == \E i \in DOMAIN list : list[i] = x

\* the loop of extract_tags from keyword k on
RECURSIVE FoundTags(_, _, _)
FoundTags(text_lower, k, found_tags) ==
    IF k > Len(TechKeywords) THEN found_tags
    ELSE LET tag == TechKeywords[k]
             hit == Contains(text_lower, Lower(CharsOf(tag)))
             normalized == NormalizedTag(tag)
         IN  FoundTags(text_lower, k + 1,
                 IF hit /\ ~InList(normalized, found_tags)
                 THEN Append(found_tags, normalized)
                 ELSE found_tags)

\* extract_tags(text)
extract_tags(toks) ==
    IF toks = << >> THEN << >>
    ELSE FoundTags(Lower(TextChars(toks)), 1, << >>)

\* the words of the skill_tags pattern of ZhaopinScraper._parse_job_block
\* that this model keeps, lowered
SkillWords == {"python", "java", "go", "mysql", "redis", "django", "docker",
               "kubernetes", "spring", "oracle", "javascript"}

IsSkillWord(tok) ==
    /\ tok.t = "sym"
    /\ tok.s \in PageWords \ {" "}
    /\ \E w \in SkillWords : Lower(CharsOf(tok.s)) = CharsOf(w)

IsSpace(tok) == IsSym(tok, {" "})

\* re.findall(r'(?:^|\s)(Python|...)(?:\s|$)', block, re.IGNORECASE) from
\* token i on; `consumed` is the last token an earlier match has taken
RECURSIVE SkillTags(_, _, _)
SkillTags(toks, i, consumed) ==
    IF i > Len(toks) THEN << >>
    ELSE LET lead  == i = 1 \/ (IsSpace(toks[i - 1]) /\ i - 1 > consumed)
             trail == i = Len(toks) \/ IsSpace(toks[i + 1])
         IN  IF IsSkillWord(toks[i]) /\ lead /\ trail
             THEN <<toks[i].s>> \o SkillTags(toks, i + 2, i + 1)
             ELSE SkillTags(toks, i + 1, consumed)

\* `for tag in skill_tags: if tag not in tags: tags.append(tag)`
RECURSIVE AppendNew(_, _)
AppendNew(tags, more) ==
    IF more = << >> THEN tags
    ELSE AppendNew(IF InList(Head(more), tags) THEN tags
                   ELSE Append(tags, Head(more)),
                   Tail(more))

MaxTags == 10

\* tags[:10]
FirstTags(tags) == SubSeq(tags, 1, IF Len(tags) < MaxTags THEN Len(tags) ELSE MaxTags)

\* str.replace(old, new) on a text, old being one symbol
RECURSIVE Replace(_, _, _)
Replace(toks, old, new) ==
    IF toks = << >> THEN << >>
    ELSE (IF IsSym(Head(toks), {old}) THEN new ELSE <<Head(toks)>>)
         \o Replace(Tail(toks), old, new)

\* ZhaopinScraper._normalize_salary(salary_str)
normalize_salary(toks) ==
    LET wan_match  == Search(toks, <<Dec, One({"-"}), Dec, One({"wan"})>>)
        yuan_match == Search(toks, <<Digits, One({"-"}), Digits, One({"yuan"})>>)
    IN  IF wan_match.ok
        THEN KRange(Whole(TimesTen(wan_match.caps[1])),
                    Whole(TimesTen(wan_match.caps[2])))
        ELSE IF yuan_match.ok
        THEN KRange(Whole(yuan_match.caps[1].whole \div 1000),
                    Whole(yuan_match.caps[2].whole \div 1000))
        ELSE toks

\* the salary of _parse_job_block: the text the first matching pattern of
\* salary_patterns captures, normalized
BlockSalary(block) ==
    LET wan    == Search(block, <<Dec, One({"-"}), Dec, One({"wan"})>>)
        bonus  == MatchFrom(block, wan.to + 1,
                            <<One({"dot"}), Digits, One({"xin"})>>, FALSE)
        yuan   == Search(block, <<Digits4, One({"-"}), Digits4, One({"yuan"})>>)
        salary == IF wan.ok
                  THEN Str(<<wan.caps[1], Sym("-"), wan.caps[2], Sym("wan")>>
                           \o (IF bonus.ok
                               THEN <<Sym("dot"), bonus.caps[1], Sym("xin")>>
                               ELSE << >>))
                  ELSE IF yuan.ok
                  THEN Str(<<yuan.caps[1], Sym("-"), yuan.caps[2], Sym("yuan")>>)
                  ELSE NoneStr
    IN  IF Falsy(salary) THEN salary ELSE Str(normalize_salary(salary.toks))

\* the experience of _parse_job_block: the leftmost match of
\* (\d+-\d+nian|jingyan buxian|\d+nian yishang), rewritten
BlockExperience(block) ==
    LET range  == Search(block, <<Digits, One({"-"}), Digits, One({"nian"})>>)
        nolim  == Search(block, <<One({"jingyan buxian"})>>)
        plus   == Search(block, <<Digits, One({"nian"}), One({"yishang"})>>)
        found  == {m \in {range, nolim, plus} : m.ok}
        first  == CHOOSE m \in found : \A o \in found : m.from <= o.from
        exp_text == IF first = nolim THEN <<Sym("jingyan buxian")>>
                    ELSE IF first = range
                    THEN <<range.caps[1], Sym("-"), range.caps[2], Sym("nian")>>
                    ELSE <<plus.caps[1], Sym("nian"), Sym("yishang")>>
    IN  IF found = {} THEN NoneStr
        ELSE IF exp_text = <<Sym("jingyan buxian")>> THEN Str(EntryLevel)
        ELSE Str(Replace(Replace(exp_text, "nian", <<Sym(" "), Sym("years")>>),
                         "yishang", <<Sym("+")>>))

\* the tags of _parse_job_block
BlockTags(block) ==
    FirstTags(AppendNew(extract_tags(block), SkillTags(block, 1, 0)))

\* ZhaopinScraper._parse_job_block: the fields read from the block
ZhaopinJobBlock(block) ==
    [salary_range |-> BlockSalary(block),
     experience   |-> BlockExperience(block),
     tags         |-> BlockTags(block)]

\* LinkedInScraper._parse_job_block: salary and experience are None, the
\* tags come from title + " " + block
LinkedInJobBlock(title, block) ==
    [salary_range |-> NoneStr,
     experience   |-> NoneStr,
     tags         |-> FirstTags(extract_tags(title \o <<Sym(" ")>> \o block))]


----------------------------------------------------------------------------
(* Properties of the commands *)

Last(seq) == seq[Len(seq)]

\* the searches a command has handed to a scraper so far
Handed == {i \in DOMAIN log : log[i].handed}

\* the names of the command's list for which it has a scraper
PlatformsSearched ==
    LET names == IF cmd.kind = "cli_search" THEN CliSearchScrapers(cmd.platform)
                 ELSE IF cmd.kind = "cli_refresh" THEN CliRefreshPlatforms(cmd.platform)
                 ELSE TuiScrapers(cmd.platform)
    IN  {i \in DOMAIN names : Fetches(cmd.kind, names[i])}

\* C1: while and after a CLI search or refresh, the month's counter is its
\* value at the start of the command plus one per search handed to a
\* scraper, whatever the outcome of the search and however many attempts
\* the client made; a completed command that scraped k platforms has
\* raised the counter by k.
C1_OneRequestPerHandedSearch ==
    cmd.kind \in CliKinds =>
        /\ RequestsUsed(request_tracker, now) = cmd.used0 + Cardinality(Handed)
        /\ (cpos = "idle" /\ cmd.path = "scrape") =>
              RequestsUsed(request_tracker, now)
                 = cmd.used0 + Cardinality(PlatformsSearched)

\* a CLI search of both platforms is over: the first search ended in an
\* error after four attempts, the second returned records; counter up by 2
C1_Witness ==
    /\ cpos = "idle"
    /\ cmd.kind = "cli_search"
    /\ cmd.platform = "all"
    /\ Len(log) = 2
    /\ log[1].attempts = DefaultMaxRetries + 1
    /\ log[1].outcome = "error"
    /\ log[2].outcome = "jobs"
    /\ RequestsUsed(request_tracker, now) = cmd.used0 + 2

\* C6: a CLI search or refresh is never inside a billed remote call while
\* the month's requests_used is at or above monthly_request_limit, and
\* requests_used does not exceed monthly_request_limit once a CLI command
\* is over.
C6_NoBilledCallAtLimit ==
    cmd.kind \in CliKinds =>
        /\ cpos = "fetching" =>
              RequestsUsed(request_tracker, now) < monthly_request_limit
        /\ cpos = "idle" =>
              RequestsUsed(request_tracker, now) <= monthly_request_limit

\* the command fetched source S and neither the client nor the parser threw
FetchedWithoutError(S) ==
    \E i \in DOMAIN log : /\ log[i].name = S
                          /\ log[i].handed
                          /\ ~log[i].failed

\* the marker of S carries the time of the current command (the clock
\* advances at every command start, so an older marker has another value)
MarkerOverwritten(S) ==
    /\ HasLastRefresh(cache_metadata, S)
    /\ GetLastRefresh(cache_metadata, S) = FromIsoFormat(IsoFormat(now))

\* C9: when a command (CLI search, CLI refresh, TUI search, TUI refresh)
\* that went to the scrapers is over, it has overwritten the refresh marker
\* of a source exactly if it completed a fetch of that source without error.
C9_MarkerIffSuccessfulFetch ==
    (cpos = "idle" /\ cmd.kind # "none" /\ cmd.path = "scrape") =>
        \A S \in Sources : MarkerOverwritten(S) <=> FetchedWithoutError(S)

\* C10: a search handed to a scraper returns a ScraperResult, never raises;
\* when the client or the parser threw, the result has no jobs, total_count
\* 0, has_more false, the scraper's name as source and the exception text
\* as error; a result without error has total_count = len(jobs).
C10_SearchNeverRaises ==
    (log # << >> /\ Last(log).handed) =>
        /\ result.kind = "result"
        /\ result.source = Last(log).name
        /\ Last(log).failed =>
              /\ result.jobs = << >>
              /\ result.total_count = 0
              /\ result.has_more = FALSE
              /\ result.error = Last(log).exc
              /\ ~result.error.is_none
        /\ result.error.is_none => result.total_count = Len(result.jobs)

\* the LinkedIn search of a command ended with the client out of retries:
\* an error result carrying the text of the MCPConnectionError
C10_Witness ==
    /\ log # << >>
    /\ Last(log).handed
    /\ Last(log).name = "linkedin"
    /\ Last(log).failed
    /\ result = ErrorResult("linkedin",
                    ConnectionFailedText(DefaultMaxRetries + 1, ""))


\* the rows a command has stored: every save of the command stamps now
RowsStoredNow == {r \in jobs : r.fetched_at = IsoFormat(now)}

\* the rows of the records log entry i collected
RowsOfEntry(i) == {RowOf(log[i].jobs[k]) : k \in DOMAIN log[i].jobs}

\* C11: a CLI search over all platforms in which one fetch failed and the
\* other succeeded with records, in either order, is over: both platforms
\* were queried, the exit code is 0, the rows stored are exactly the
\* records of the platform that succeeded, and the failure was shown as a
\* warning.
C11_PartialResultsKept ==
    (/\ cpos = "idle" /\ cmd.kind = "cli_search" /\ cmd.platform = "all"
     /\ cmd.path = "scrape") =>
        /\ Len(log) = 2
        /\ \A i \in {1, 2} :
              (/\ log[i].failed
               /\ ~log[3 - i].failed
               /\ log[3 - i].jobs # << >>) =>
                  /\ exit_code = 0
                  /\ RowsStoredNow = RowsOfEntry(3 - i)
                  /\ log[i].outcome = "error"


----------------------------------------------------------------------------
(* The parsing functions applied to bounded texts *)

\* the amounts written in the salary texts
Amounts == {Whole(2), Whole(3), Num(1, <<5>>), Num(2, <<5>>),
            Whole(20), Whole(35), Whole(6000), Whole(9000)}

\* the ways a salary from a to b is written
SalaryShapes(a, b) ==
    { <<a, Sym("-"), b, Sym("wan")>>,
      <<a, Sym("wan"), Sym("-"), b, Sym("wan")>>,
      <<a, Sym("w"), Sym("~"), b>>,
      <<a, Sym("k"), Sym("-"), b, Sym("k")>>,
      <<a, Sym("K"), Sym(" "), Sym("dao"), Sym(" "), b, Sym("K")>>,
      <<a, Sym("-"), b, Sym("K")>>,
      <<a, Sym("-"), b, Sym("yuan")>>,
      <<Sym("yuexin"), Sym(" "), a, Sym("zhi"), b>> }

\* a text with the k notation first and the wan notation after it
TwoNotations ==
    <<Whole(20), Sym("k"), Sym("-"), Whole(35), Sym("k"), Sym(" "),
      Whole(2), Sym("wan"), Sym("-"), Whole(3), Sym("wan")>>

NoSalaryHere == <<Sym("no salary here")>>

SalaryTexts ==
    UNION {SalaryShapes(a, b) : a \in Amounts, b \in Amounts}
    \cup {<< >>, NoSalaryHere, TwoNotations}

\* the years written in the experience texts
MaxYears == 3
Years    == {Whole(n) : n \in 0..MaxYears}

ExperienceTexts ==
    UNION {{ <<a, Sym("-"), b, Sym("nian")>>,
             <<a, Sym("nian"), Sym("yishang")>>,
             <<a, Sym("-"), b, Sym(" "), Sym("years")>>,
             <<a, Sym(" "), Sym("to"), Sym(" "), b, Sym(" "), Sym("years")>>,
             <<a, Sym("nian")>> } : a \in Years, b \in Years}
    \cup {<< >>, <<Sym("jingyan buxian")>>, <<Sym("entry level")>>}

\* the parts of a Zhaopin job block
BlockSalaries ==
    {<< >>,
     <<Num(1, <<5>>), Sym("-"), Whole(3), Sym("wan")>>,
     <<Whole(2), Sym("-"), Whole(3), Sym("wan"), Sym("dot"), Whole(16), Sym("xin")>>,
     <<Whole(6000), Sym("-"), Whole(9000), Sym("yuan")>>,
     <<Sym("mianyi")>>}

BlockExperiences ==
    UNION {{ <<a, Sym("-"), b, Sym("nian")>>,
             <<a, Sym("nian"), Sym("yishang")>> } : a \in Years, b \in Years}
    \cup {<< >>, <<Sym("jingyan buxian")>>}

\* words separated by one space
RECURSIVE Spaced(_)
Spaced(words) ==
    IF words = << >> THEN << >>
    ELSE IF Len(words) = 1 THEN <<Sym(words[1])>>
    ELSE <<Sym(Head(words)), Sym(" ")>> \o Spaced(Tail(words))

BlockWords ==
    {Spaced(w) : w \in
        { << >>, <<"Python">>, <<"python">>, <<"golang", "K8S">>,
          <<"Oracle">>, <<"python", "java", "Python">>, <<"javascript">>,
          <<"Python", "Java", "javascript", "golang", "django", "spring",
            "springboot", "docker", "K8s", "mysql", "redis", "linux">> }}

\* the page text after a job link: salary, experience, words
Blocks ==
    {sal \o <<Sym(" ")>> \o ex \o <<Sym(" ")>> \o ws :
        sal \in BlockSalaries, ex \in BlockExperiences, ws \in BlockWords}

LinkedInTitles == {Spaced(<<"Python">>), Spaced(<<"JAVA">>)}

\* one call per behaviour: the functions keep no state between calls
ParseRest ==
    /\ last_op = NoOp
    /\ UNCHANGED <<clientVars, storeVars, cmdVars, incVars, stale_q>>

DoExtractSalary ==
    /\ ParseRest
    /\ \E text \in SalaryTexts :
        last_op' = [op |-> "extract_salary", text |-> text,
                    out |-> extract_salary(text)]

DoExtractExperience ==
    /\ ParseRest
    /\ \E text \in ExperienceTexts :
        last_op' = [op |-> "extract_experience", text |-> text,
                    out |-> extract_experience(text)]

DoZhaopinJobBlock ==
    /\ ParseRest
    /\ \E block \in Blocks :
        last_op' = [op |-> "parse_job_block", source |-> "zhaopin",
                    block |-> block, job |-> ZhaopinJobBlock(block)]

DoLinkedInJobBlock ==
    /\ ParseRest
    /\ \E title \in LinkedInTitles, block \in BlockWords :
        last_op' = [op |-> "parse_job_block", source |-> "linkedin",
                    block |-> title \o <<Sym(" ")>> \o block,
                    job |-> LinkedInJobBlock(title, block)]

InitParse ==
    /\ ClientIdle /\ StoreNew /\ CmdIdle /\ IncIdle
    /\ now = 0
    /\ stale_q = NoQuestion
    /\ last_op = NoOp

NextParse ==
    \/ DoExtractSalary \/ DoExtractExperience
    \/ DoZhaopinJobBlock \/ DoLinkedInJobBlock

SpecParse == InitParse /\ [][NextParse]_vars

\* C17: extract_salary tries the wan notation, then the k notation, then
\* raw yuan, and the first that matches decides: '2-3wan' gives '20k-30k',
\* '20k-35k' gives '20k-35k', '6000-9000yuan' gives '6k-9k', a text with
\* both the k and the wan notation gives the wan reading, and a text with
\* no salary gives None.
C17_ExtractSalaryExamples ==
    last_op.op = "extract_salary" =>
        LET text == last_op.text
            out  == last_op.out
        IN  /\ text = <<Whole(2), Sym("-"), Whole(3), Sym("wan")>> =>
                  out = Str(KRange(Whole(20), Whole(30)))
            /\ text = <<Whole(20), Sym("k"), Sym("-"), Whole(35), Sym("k")>> =>
                  out = Str(KRange(Whole(20), Whole(35)))
            /\ text = <<Whole(6000), Sym("-"), Whole(9000), Sym("yuan")>> =>
                  out = Str(KRange(Whole(6), Whole(9)))
            /\ text = TwoNotations => out = Str(KRange(Whole(20), Whole(30)))
            /\ text \in {<< >>, NoSalaryHere} => out = NoneStr

\* '<int>k-<int>k'
IsIntKRange(toks) ==
    /\ Len(toks) = 5
    /\ IsNum(toks[1]) /\ toks[1].frac = << >>
    /\ toks[2] = Sym("k")
    /\ toks[3] = Sym("-")
    /\ IsNum(toks[4]) /\ toks[4].frac = << >>
    /\ toks[5] = Sym("k")

\* C18: every present result of extract_salary and the salary_range of
\* every record of a source parser has the shape '<int>k-<int>k'.
C18_SalaryShape ==
    /\ (last_op.op = "extract_salary" /\ ~last_op.out.is_none) =>
          IsIntKRange(last_op.out.toks)
    /\ (last_op.op = "parse_job_block" /\ ~last_op.job.salary_range.is_none) =>
          IsIntKRange(last_op.job.salary_range.toks)

\* '<a>-<b> years', '<a>+ years' or 'Entry Level'
IsExperienceShape(toks) ==
    \/ toks = EntryLevel
    \/ \E a \in Years, b \in Years : toks = YearsRange(a, b)
    \/ \E a \in Years : toks = YearsPlus(a)

\* C19: the experience of every record of a source parser is None or one of
\* '<a>-<b> years', '<a>+ years', 'Entry Level'.
C19_ExperienceShape ==
    (last_op.op = "parse_job_block" /\ ~last_op.job.experience.is_none) =>
        IsExperienceShape(last_op.job.experience.toks)

\* the canonical keywords: the vocabulary after normalisation
CanonicalTags == {NormalizedTag(TechKeywords[k]) : k \in DOMAIN TechKeywords}

\* C20: the tags of every record of a source parser hold no two entries
\* equal ignoring case, at most 10 entries, and canonical keywords only.
C20_TagsCanonical ==
    last_op.op = "parse_job_block" =>
        LET tags == last_op.job.tags
        IN  /\ \A i, j \in DOMAIN tags :
                  i # j => Lower(CharsOf(tags[i])) # Lower(CharsOf(tags[j]))
            /\ Len(tags) <= MaxTags
            /\ \A i \in DOMAIN tags : tags[i] \in CanonicalTags

(***************************************************************************)
(* filter_jobs                                                             *)
(***************************************************************************)

\* the fields of a JobPosting that filter_jobs reads
FilterJob(title, description, tags, salary_range, experience) ==
    [title |-> title, description |-> description, tags |-> tags,
     salary_range |-> salary_range, experience |-> experience]

\* Optional[str] for tech (a sequence of characters) and for description
NoTech       == [is_none |-> TRUE,  chars |-> << >>]
Tech(chars)  == [is_none |-> FALSE, chars |-> chars]
NoDescription    == [is_none |-> TRUE,  s |-> ""]
Description(s)   == [is_none |-> FALSE, s |-> s]

\* tech.split(",")
RECURSIVE SplitComma(_)
SplitComma(chars) ==
    LET commas == {i \in DOMAIN chars : chars[i] = ","}
    IN  IF commas = {} THEN <<chars>>
        ELSE LET i == CHOOSE k \in commas : \A j \in commas : k <= j
             IN  <<SubSeq(chars, 1, i - 1)>>
                     \o SplitComma(SubSeq(chars, i + 1, Len(chars)))

\* str.strip()
RECURSIVE Strip(_)
Strip(chars) ==
    IF chars # << >> /\ Head(chars) = " " THEN Strip(Tail(chars))
    ELSE IF chars # << >> /\ chars[Len(chars)] = " "
    THEN Strip(SubSeq(chars, 1, Len(chars) - 1))
    ELSE chars

\* tech_tags = [t.strip().lower() for t in tech.split(",")]
tech_tags(chars) ==
    LET items == SplitComma(chars)
    IN  [i \in DOMAIN items |-> Lower(Strip(items[i]))]

\* (j.description or "").lower()
DescriptionLower(j) ==
    IF j.description.is_none THEN << >> ELSE Lower(CharsOf(j.description.s))

\* the condition of the list comprehension of the tech filter; the inner
\* generator rebinds `tag` over all of tech_tags
TechKeeps(j, tags) ==
    \E i \in DOMAIN tags :
        \/ \E k \in DOMAIN j.tags : Lower(CharsOf(j.tags[k])) = Lower(tags[i])
        \/ \E n \in DOMAIN tags :
              \/ Contains(Lower(CharsOf(j.title)), tags[n])
              \/ Contains(DescriptionLower(j), tags[n])

\* `if tech:` and the list comprehension
TechStage(job_list, tech) ==
    IF tech.is_none \/ tech.chars = << >> THEN job_list
    ELSE SelectSeq(job_list, LAMBDA j : TechKeeps(j, tech_tags(tech.chars)))

\* job_salary is not None and job_salary >= salary_min
SalaryKeeps(j, salary_min) ==
    LET job_salary == parse_salary_min(j.salary_range)
    IN  ~job_salary.is_none /\ job_salary.v >= salary_min

\* the salary filter guarded by `if salary_min:`, which skips it for 0
SalaryStage_Truthy(job_list, salary_min) ==
    IF salary_min.is_none \/ salary_min.v = 0 THEN job_list
    ELSE SelectSeq(job_list, LAMBDA j : SalaryKeeps(j, salary_min.v))

\* `if salary_min is not None:` and its loop
SalaryStage(job_list, salary_min) ==
    IF salary_min.is_none THEN job_list
    ELSE SelectSeq(job_list, LAMBDA j : SalaryKeeps(j, salary_min.v))

\* the experience filter with a one-sided test for two closed ranges
ExperienceKeeps_OneSided(j, exp_range) ==
    LET job_exp == parse_experience_years(j.experience)
    IN  IF ~job_exp.is_none
        THEN IF exp_range.max.is_none
             THEN job_exp.max.is_none \/ job_exp.max.v >= exp_range.min
             ELSE IF job_exp.max.is_none
             THEN exp_range.max.v >= job_exp.min
             ELSE job_exp.min <= exp_range.max.v
        ELSE TRUE

\* the body of the loop of the experience filter
ExperienceKeeps(j, exp_range) ==
    LET job_exp == parse_experience_years(j.experience)
        req_min == exp_range.min
        req_max == exp_range.max
        job_min == job_exp.min
        job_max == job_exp.max
    IN  IF ~job_exp.is_none
        THEN IF req_max.is_none
             THEN job_max.is_none \/ job_max.v >= req_min
             ELSE IF job_max.is_none
             THEN req_max.v >= job_min
             ELSE job_min <= req_max.v /\ job_max.v >= req_min
        ELSE TRUE

\* `if exp:`, `if exp_range:` and the loop
ExperienceStage(job_list, exp) ==
    LET exp_range == parse_experience_years(exp)
    IN  IF Falsy(exp) THEN job_list
        ELSE IF exp_range.is_none THEN job_list
        ELSE SelectSeq(job_list, LAMBDA j : ExperienceKeeps(j, exp_range))

\* filter_jobs if the list were cut to its first two records after the
\* tech stage, as the caller cuts the result to `limit`
filter_jobs_CutEarly(job_list, tech, salary_min, exp) ==
    LET filtered == TechStage(job_list, tech)
        cut == IF Len(filtered) > 2 THEN SubSeq(filtered, 1, 2) ELSE filtered
    IN  ExperienceStage(SalaryStage(cut, salary_min), exp)

\* filter_jobs(jobs, tech, salary_min, exp)
filter_jobs(job_list, tech, salary_min, exp) ==
    ExperienceStage(SalaryStage(TechStage(job_list, tech), salary_min), exp)

(***************************************************************************)
(* filter_jobs applied to bounded lists of records                         *)
(***************************************************************************)

MaxFilterYears == 8    \* years of experience run from 0 to MaxFilterYears
MaxSalaryMin   == 3    \* salary_min runs from 0 to MaxSalaryMin

FilterYears == 0..MaxFilterYears

\* the --exp option: "a-b", "a+", or a word
ExpQuery(a, b)  == Str(<<Whole(a), Sym("-"), Whole(b)>>)
ExpQueryPlus(a) == Str(<<Whole(a), Sym("+")>>)
ExpQueries ==
    {ExpQuery(r[1], r[2]) :
        r \in {q \in FilterYears \X FilterYears : q[1] <= q[2]}}
        \cup {ExpQuery(5, 3)}
        \cup {ExpQueryPlus(a) : a \in FilterYears}
        \cup {Str(<<Sym("senior")>>)}

\* the experience of a stored record: what the parsers write, or nothing
RecordExperiences ==
    {Str(YearsRange(Whole(r[1]), Whole(r[2]))) :
        r \in {q \in FilterYears \X FilterYears : q[1] <= q[2]}}
        \cup {Str(YearsPlus(Whole(a))) : a \in FilterYears}
        \cup {Str(<<Whole(a), Sym(" "), Sym("years"), Sym("+")>>) :
                 a \in FilterYears}
        \cup {Str(EntryLevel), Str(<<Sym("jingyan buxian")>>), NoneStr}

\* a record with no tags, salary or experience
PlainJob == FilterJob("Java Developer", NoDescription, << >>, NoneStr, NoneStr)

WithExperience(e) == [PlainJob EXCEPT !.experience = e]
WithSalary(s)     == [PlainJob EXCEPT !.salary_range = s]

ExperienceLists ==
    {<<WithExperience(e)>> : e \in RecordExperiences}
        \cup {<<WithExperience(Str(YearsRange(Whole(1), Whole(4)))),
                WithExperience(Str(YearsRange(Whole(6), Whole(8)))),
                WithExperience(Str(YearsRange(Whole(3), Whole(5))))>>}

\* the --salary-min option
SalaryMins == {NoneInt} \cup {SomeInt(n) : n \in 0..MaxSalaryMin}

\* the salary_range of a stored record
RecordSalaries ==
    {Str(KRange(Whole(a), Whole(b))) :
        a \in 0..(MaxSalaryMin + 1), b \in 0..(MaxSalaryMin + 1)}
        \cup {Str(KRange(Num(1, <<5>>), Whole(2))),
              Str(<<Whole(2), Sym("k")>>),
              Str(<<Sym("mianyi")>>), Str(<< >>), NoneStr}

SalaryLists ==
    {<<WithSalary(s)>> : s \in RecordSalaries}
        \cup {<<WithSalary(Str(KRange(Whole(0), Whole(1)))),
                WithSalary(NoneStr),
                WithSalary(Str(KRange(Whole(2), Whole(3))))>>}

\* the --tech option
TechStrings ==
    {Tech(CharsOf("python")), Tech(CharsOf("Python")), Tech(CharsOf("rust")),
     Tech(CharsOf("go")),
     Tech(CharsOf("rust") \o <<",">> \o CharsOf("java")),
     Tech(CharsOf("python") \o <<",", " ">> \o CharsOf("Redis")),
     Tech(CharsOf("python") \o <<",">>),
     Tech(CharsOf("rust") \o <<",", " ">>),
     Tech(<<",">>), Tech(<<" ">>), Tech(<< >>), NoTech}

TechJobs ==
    {FilterJob(title, description, tags, NoneStr, NoneStr) :
        title \in {"Python Engineer", "Java Developer", "Django Developer"},
        description \in {NoDescription, Description(""),
                         Description("uses Go daily")},
        tags \in {<< >>, <<"Python">>, <<"Java", "Go">>, <<"PYTHON", "Redis">>}}

TechLists ==
    {<<j>> : j \in TechJobs}
        \cup {<<FilterJob("Python Engineer", NoDescription, << >>,
                          NoneStr, NoneStr),
                FilterJob("Java Developer", NoDescription, <<"Java">>,
                          NoneStr, NoneStr)>>}

\* one stored list on which the three filters are combined
MixedList ==
    <<FilterJob("Python Engineer", NoDescription, <<"Python">>,
                Str(KRange(Whole(2), Whole(3))),
                Str(YearsRange(Whole(1), Whole(4)))),
      FilterJob("Java Developer", Description("uses Go daily"), <<"Java">>,
                Str(KRange(Whole(1), Whole(2))),
                Str(YearsPlus(Whole(6)))),
      FilterJob("Django Developer", NoDescription, << >>, NoneStr, NoneStr)>>

\* a call of filter_jobs and what it returned
FilterCall(job_list, tech, salary_min, exp) ==
    [op |-> "filter_jobs", jobs |-> job_list, tech |-> tech,
     salary_min |-> salary_min, exp |-> exp,
     out |-> filter_jobs(job_list, tech, salary_min, exp)]

\* filter_jobs(jobs, tech=...)
DoFilterTech ==
    /\ ParseRest
    /\ \E job_list \in TechLists, tech \in TechStrings :
        last_op' = FilterCall(job_list, tech, NoneInt, NoneStr)

\* filter_jobs(jobs, salary_min=...)
DoFilterSalary ==
    /\ ParseRest
    /\ \E job_list \in SalaryLists, salary_min \in SalaryMins :
        last_op' = FilterCall(job_list, NoTech, salary_min, NoneStr)

\* filter_jobs(jobs, exp=...)
DoFilterExperience ==
    /\ ParseRest
    /\ \E job_list \in ExperienceLists, exp \in ExpQueries \cup {NoneStr} :
        last_op' = FilterCall(job_list, NoTech, NoneInt, exp)

\* filter_jobs(jobs, tech, salary_min, exp)
DoFilterAll ==
    /\ ParseRest
    /\ \E tech \in {Tech(CharsOf("python")), Tech(CharsOf("go")), NoTech},
          salary_min \in {NoneInt, SomeInt(0), SomeInt(2)},
          exp \in {ExpQuery(3, 5), ExpQueryPlus(5), NoneStr} :
        last_op' = FilterCall(MixedList, tech, salary_min, exp)

NextFilter ==
    \/ DoFilterTech \/ DoFilterSalary \/ DoFilterExperience \/ DoFilterAll

SpecFilter == InitParse /\ [][NextFilter]_vars

(***************************************************************************)
(* Properties of filter_jobs                                               *)
(***************************************************************************)

\* the call made filters by experience only, with a query that parses
ExperienceCall ==
    /\ last_op.op = "filter_jobs"
    /\ last_op.tech.is_none /\ last_op.salary_min.is_none
    /\ ~parse_experience_years(last_op.exp).is_none

\* the rule for a record's range and the query's range
Eligible(job, req) ==
    \/ job.is_none
    \/ /\ ~job.is_none /\ req.max.is_none
       /\ (job.max.is_none \/ job.max.v >= req.min)
    \/ /\ ~job.is_none /\ ~req.max.is_none /\ job.max.is_none
       /\ req.max.v >= job.min
    \/ /\ ~job.is_none /\ ~req.max.is_none /\ ~job.max.is_none
       /\ job.min <= req.max.v /\ job.max.v >= req.min

InOutput(j) == \E i \in DOMAIN last_op.out : last_op.out[i] = j

\* C12: with an experience query that parses to (reqMin, reqMax),
\* filter_jobs keeps, in order, exactly the records without a parsable
\* experience and those whose range (jobMin, jobMax) is eligible: reqMax
\* absent and (jobMax absent or jobMax >= reqMin); reqMax present, jobMax
\* absent and reqMax >= jobMin; both present and jobMin <= reqMax and
\* jobMax >= reqMin.  Entry Level counts as (0, 0); query 3-5 keeps
\* '1-4 years' and drops '6-8 years', query 5+ keeps '3-5 years'.
C12_ExperienceOverlap ==
    ExperienceCall =>
        LET req == parse_experience_years(last_op.exp)
        IN  /\ last_op.out =
                  SelectSeq(last_op.jobs,
                      LAMBDA j : Eligible(parse_experience_years(j.experience),
                                          req))
            /\ parse_experience_years(Str(EntryLevel)) = Range(0, 0)
            /\ \A i \in DOMAIN last_op.jobs :
                  LET j == last_op.jobs[i]
                  IN  /\ (/\ last_op.exp = ExpQuery(3, 5)
                          /\ j.experience = Str(YearsRange(Whole(1), Whole(4))))
                             => InOutput(j)
                      /\ (/\ last_op.exp = ExpQuery(3, 5)
                          /\ j.experience = Str(YearsRange(Whole(6), Whole(8))))
                             => ~InOutput(j)
                      /\ (/\ last_op.exp = ExpQueryPlus(5)
                          /\ j.experience = Str(YearsRange(Whole(3), Whole(5))))
                             => InOutput(j)

\* query 3-5 on records of 1-4, 6-8 and 3-5 years returned the first and
\* the last
C12_Witness ==
    /\ ExperienceCall
    /\ last_op.exp = ExpQuery(3, 5)
    /\ Len(last_op.jobs) = 3
    /\ last_op.out = <<last_op.jobs[1], last_op.jobs[3]>>

\* the call made filters by salary only, or by nothing
SalaryCall ==
    /\ last_op.op = "filter_jobs"
    /\ last_op.tech.is_none /\ last_op.exp.is_none

\* the salary_range of the record is absent or holds no number
NoSalaryToParse(j) ==
    \/ j.salary_range.is_none
    \/ \A i \in DOMAIN j.salary_range.toks : ~IsNum(j.salary_range.toks[i])

\* C13: when salary_min is given, 0 included, filter_jobs keeps, in order,
\* exactly the records whose salary_range parses to a minimum salary of at
\* least salary_min: a record 'ak-bk' is kept exactly when a >= salary_min,
\* and a record whose salary_range is absent or holds no number is dropped.
\* When salary_min is not given, the list is returned as it is.
C13_SalaryThreshold ==
    SalaryCall =>
        IF last_op.salary_min.is_none
        THEN last_op.out = last_op.jobs
        ELSE /\ last_op.out =
                   SelectSeq(last_op.jobs,
                       LAMBDA j :
                           LET m == parse_salary_min(j.salary_range)
                           IN  ~m.is_none /\ m.v >= last_op.salary_min.v)
             /\ \A i \in DOMAIN last_op.jobs :
                   LET j == last_op.jobs[i]
                   IN  /\ NoSalaryToParse(j) => ~InOutput(j)
                       /\ \A a, b \in 0..(MaxSalaryMin + 1) :
                             j.salary_range = Str(KRange(Whole(a), Whole(b)))
                                 => (InOutput(j) <=> a >= last_op.salary_min.v)

\* salary_min 0 on records '0k-1k', None and '2k-3k' returned the first and
\* the last
C13_Witness ==
    /\ SalaryCall
    /\ last_op.salary_min = SomeInt(0)
    /\ Len(last_op.jobs) = 3
    /\ last_op.jobs[2].salary_range.is_none
    /\ last_op.out = <<last_op.jobs[1], last_op.jobs[3]>>

\* the call made filters by tech only
TechCall ==
    /\ last_op.op = "filter_jobs"
    /\ ~last_op.tech.is_none /\ last_op.tech.chars # << >>
    /\ last_op.salary_min.is_none /\ last_op.exp.is_none

\* the requested tags: the items between the commas that are not empty
RequestedTags(chars) == SelectSeq(tech_tags(chars), LAMBDA t : t # << >>)

\* the requested tag equals a tag of the record or occurs in its title or
\* description, case ignored
TagMatches(j, tag) ==
    \/ \E k \in DOMAIN j.tags : Lower(CharsOf(j.tags[k])) = tag
    \/ Contains(Lower(CharsOf(j.title)), tag)
    \/ ~j.description.is_none /\ Contains(Lower(CharsOf(j.description.s)), tag)

\* C14: with a tech filter, filter_jobs keeps, in order, exactly the
\* records that match at least one requested tag, and drops a record that
\* matches none of them, for every tech string: several tags, and an empty
\* item such as a trailing comma.
C14_TechMatch ==
    TechCall =>
        LET requested == RequestedTags(last_op.tech.chars)
        IN  last_op.out =
                SelectSeq(last_op.jobs,
                    LAMBDA j : \E n \in DOMAIN requested :
                                   TagMatches(j, requested[n]))

(***************************************************************************)
(* delete_old_jobs                                                         *)
(***************************************************************************)

MaxExpireDays == 2     \* delete_old_jobs is called with days in 0..MaxExpireDays
MaxExpireTime == 48    \* the clock of the expiry runs from 0 to MaxExpireTime

\* SQLite date(cutoff, '-N days'): the date part of the timestamp, N days
\* back; the result is a date without a time of day
SqlDate(iso, days) == iso.date - days

\* the text comparison fetched_at < 'YYYY-MM-DD': a timestamp of an earlier
\* date is smaller; a timestamp of the same date is the longer text and so
\* the greater one
IsoBeforeDate(iso, date) == iso.date < date

\* DELETE FROM jobs WHERE fetched_at < date(cutoff, '-days days'), with
\* cutoff = datetime.now().isoformat(): the rows that remain
DeleteOldJobs(table, t, days) ==
    {r \in table : ~IsoBeforeDate(r.fetched_at, SqlDate(IsoFormat(t), days))}

\* the clock advances by a quarter of a day
TickExpire ==
    /\ now + 24 \div 4 <= MaxExpireTime
    /\ now' = now + 24 \div 4
    /\ last_op' = NoOp
    /\ UNCHANGED <<jobs, request_tracker, cache_metadata>>
    /\ UNCHANGED <<clientVars, cmdVars, incVars, stale_q>>

\* a caller runs delete_old_jobs(days); cursor.rowcount is returned
DoDeleteOldJobs ==
    /\ \E days \in 0..MaxExpireDays :
        /\ jobs' = DeleteOldJobs(jobs, now, days)
        /\ last_op' = [op |-> "delete_old_jobs", days |-> days,
                       before |-> jobs,
                       returned |-> Cardinality(jobs)
                                      - Cardinality(DeleteOldJobs(jobs, now, days))]
    /\ UNCHANGED <<now, request_tracker, cache_metadata>>
    /\ UNCHANGED <<clientVars, cmdVars, incVars, stale_q>>

NextExpire == TickExpire \/ DoSaveJob \/ DoDeleteOldJobs

SpecExpire == InitJobs /\ [][NextExpire]_vars

\* the hours between the fetch of a stored row and now
AgeInHours(r) == now - FromIsoFormat(r.fetched_at)

\* C15: delete_old_jobs(days) deletes exactly the stored rows fetched more
\* than days x 24 hours before now, keeps every younger row, and returns
\* the number of rows it deleted, at whatever time of day the rows were
\* fetched and the call is made.
C15_DeletesExactlyOld ==
    last_op.op = "delete_old_jobs" =>
        /\ jobs = {r \in last_op.before : AgeInHours(r) <= last_op.days * 24}
        /\ last_op.returned = Cardinality(last_op.before \ jobs)

(***************************************************************************)
(* The quota rows over several months                                      *)
(***************************************************************************)

MaxQuotaMonths == 2    \* the clock of the quota runs over months 0..MaxQuotaMonths
MaxQuotaCount  == 3    \* largest requests_count a month's row reaches
MaxIncrement   == 2    \* increment_request_count is called with 1..MaxIncrement

\* the clock advances by half a month
TickQuota ==
    /\ MonthOf(now + 15 * 24) <= MaxQuotaMonths
    /\ now' = now + 15 * 24
    /\ last_op' = NoOp
    /\ UNCHANGED <<jobs, request_tracker, cache_metadata>>
    /\ UNCHANGED <<clientVars, cmdVars, incVars, stale_q>>

\* a caller runs increment_request_count(count); the SELECT after the commit
\* gives the value returned
DoIncrementRequestCount ==
    /\ \E count \in 1..MaxIncrement :
        /\ RequestsUsed(request_tracker, now) + count <= MaxQuotaCount
        /\ request_tracker' = IncrementRequestCount(request_tracker, now, count)
        /\ last_op' = [op |-> "increment_request_count",
                       month |-> MonthOf(now), count |-> count,
                       returned |-> SelectCount(request_tracker', MonthOf(now),
                                                count)]
    /\ UNCHANGED <<now, jobs, cache_metadata>>
    /\ UNCHANGED <<clientVars, cmdVars, incVars, stale_q>>

\* a caller runs get_monthly_usage(): one SELECT
DoGetMonthlyUsage ==
    /\ last_op' = [op |-> "get_monthly_usage", month |-> MonthOf(now),
                   requests_used |-> RequestsUsed(request_tracker, now)]
    /\ UNCHANGED <<now, jobs, request_tracker, cache_metadata>>
    /\ UNCHANGED <<clientVars, cmdVars, incVars, stale_q>>

InitQuota ==
    /\ ClientIdle /\ StoreNew /\ CmdIdle /\ IncIdle
    /\ now = 0
    /\ stale_q = NoQuestion
    /\ last_op = NoOp

NextQuota == TickQuota \/ DoIncrementRequestCount \/ DoGetMonthlyUsage

SpecQuota == InitQuota /\ [][NextQuota]_vars

\* the months that have a row
QuotaMonths == DOMAIN request_tracker

\* what one step does to the quota rows
QuotaStep ==
    /\ \A m \in QuotaMonths :
          /\ m \in DOMAIN request_tracker'
          /\ request_tracker'[m] >= request_tracker[m]
    /\ last_op'.op = "increment_request_count" =>
          /\ MonthOf(now) \in DOMAIN request_tracker'
          /\ MonthOf(now) \notin QuotaMonths =>
                request_tracker'[MonthOf(now)] = last_op'.count
          /\ \A m \in DOMAIN request_tracker' \ {MonthOf(now)} :
                m \in QuotaMonths /\ request_tracker'[m] = request_tracker[m]
    /\ last_op'.op # "increment_request_count" =>
          request_tracker' = request_tracker
    /\ last_op'.op = "get_monthly_usage" =>
          (MonthOf(now) \notin QuotaMonths => last_op'.requests_used = 0)

\* C16: the row of a month is created by the first increment made in that
\* month and its requests_count never decreases; an increment made in
\* month M changes only M's row; no row is ever deleted;
\* get_monthly_usage in a month without a row reports 0 and creates no row.
C16_QuotaRowsMonotone == [][QuotaStep]_vars

\* an increment in month 1 created that month's row beside the row of
\* month 0, which holds its 2 requests
C16_Witness ==
    /\ last_op.op = "increment_request_count"
    /\ last_op.month = 1
    /\ QuotaMonths = {0, 1}
    /\ request_tracker[0] = 2
    /\ request_tracker[1] = last_op.count

(***************************************************************************)
(* get_jobs and get_job_count                                              *)
(***************************************************************************)

MaxLimit  == 3    \* get_jobs is called with limit in 0..MaxLimit
MaxOffset == 2    \* and with offset in 0..MaxOffset

\* the text order of two isoformat() timestamps: a >= b
IsoNotBefore(a, b) == a.date > b.date \/ (a.date = b.date /\ a.time >= b.time)

\* WHERE is_active = 1, with `source = ?` when `if source:` holds; source ""
\* stands for None
ActiveRows(table, source) ==
    {r \in table : r.is_active = 1 /\ (source = "" \/ r.source = source)}

\* ORDER BY fetched_at ascending: oldest first
OrderByFetchedAtDesc_Ascending(rows) ==
    {f \in [1..Cardinality(rows) -> rows] :
        /\ \A i, k \in DOMAIN f : i # k => f[i] # f[k]
        /\ \A i, k \in DOMAIN f :
              i < k => IsoNotBefore(f[k].fetched_at, f[i].fetched_at)}

\* ORDER BY fetched_at DESC: the orders SQLite may produce; rows with equal
\* fetched_at come in any order
OrderByFetchedAtDesc(rows) ==
    {f \in [1..Cardinality(rows) -> rows] :
        /\ \A i, k \in DOMAIN f : i # k => f[i] # f[k]
        /\ \A i, k \in DOMAIN f :
              i < k => IsoNotBefore(f[i].fetched_at, f[k].fetched_at)}

\* LIMIT ? OFFSET ?
LimitOffset(ordered, limit, offset) ==
    SubSeq(ordered, offset + 1,
           IF offset + limit < Len(ordered) THEN offset + limit ELSE Len(ordered))

\* get_jobs(source, limit, offset): the lists it may return
GetJobsPage(table, source, limit, offset) ==
    {[i \in DOMAIN LimitOffset(f, limit, offset) |->
          RowToJob(LimitOffset(f, limit, offset)[i])] :
        f \in OrderByFetchedAtDesc(ActiveRows(table, source))}

\* get_job_count(source): SELECT COUNT(*)
GetJobCount(table, source) == Cardinality(ActiveRows(table, source))

\* the JobPostings a caller may save at time t; the second zhaopin listing
\* may be saved as inactive
ReadPostingsAt(t) ==
    {JobPosting(u, "Python Engineer", "Beijing", SourceOfUrl(u), t) :
        u \in {ZUrl1, ZUrl2, LUrl3}}
        \cup {[JobPosting(ZUrl2, "Python Engineer", "Beijing", "zhaopin", t)
                  EXCEPT !.is_active = FALSE]}

\* a caller runs save_job(job)
DoSavePosting ==
    /\ \E job \in ReadPostingsAt(now) :
        /\ jobs' = SaveJob(jobs, job)
        /\ last_op' = [op |-> "save_job", batch |-> <<job>>,
                       before |-> StoredFor(jobs, <<job>>)]
    /\ UNCHANGED <<now, request_tracker, cache_metadata>>
    /\ UNCHANGED <<clientVars, cmdVars, incVars, stale_q>>

\* a caller runs get_jobs(source, limit, offset)
DoGetJobs ==
    /\ \E source \in Sources \cup {""}, limit \in 0..MaxLimit,
          offset \in 0..MaxOffset :
        \E out \in GetJobsPage(jobs, source, limit, offset) :
            last_op' = [op |-> "get_jobs", source |-> source, limit |-> limit,
                        offset |-> offset, out |-> out]
    /\ UNCHANGED <<now, jobs, request_tracker, cache_metadata>>
    /\ UNCHANGED <<clientVars, cmdVars, incVars, stale_q>>

\* a caller runs get_job_count(source)
DoGetJobCount ==
    /\ \E source \in Sources \cup {""} :
        last_op' = [op |-> "get_job_count", source |-> source,
                    returned |-> GetJobCount(jobs, source)]
    /\ UNCHANGED <<now, jobs, request_tracker, cache_metadata>>
    /\ UNCHANGED <<clientVars, cmdVars, incVars, stale_q>>

NextRead == TickJobs \/ DoSavePosting \/ DoGetJobs \/ DoGetJobCount

SpecRead == InitJobs /\ [][NextRead]_vars

\* the stored records that are active and of the source asked for
Wanted(source) ==
    {RowToJob(r) : r \in {x \in jobs : /\ x.is_active # 0
                                       /\ (source = "" \/ x.source = source)}}

\* the records of `all` ordered from newest to oldest, without repetition
NewestFirst(all) ==
    {f \in [1..Cardinality(all) -> all] :
        /\ \A i, k \in DOMAIN f : i # k => f[i] # f[k]
        /\ \A i, k \in DOMAIN f : i < k => f[i].fetched_at >= f[k].fetched_at}

\* C21: get_jobs(source, limit, offset) returns only active records, of the
\* given source when one is given, ordered by fetched_at from newest to
\* oldest, without the first `offset` of them and at most `limit` of them;
\* get_job_count(source) is the number of such records, which is the number
\* get_jobs(source) returns when the limit is not reached.
C21_GetJobsPage ==
    /\ last_op.op = "get_jobs" =>
          LET out == last_op.out
              all == Wanted(last_op.source)
              rest == Cardinality(all) - last_op.offset
          IN  /\ \A i \in DOMAIN out : out[i] \in all /\ out[i].is_active
              /\ \A i, k \in DOMAIN out :
                    i < k => out[i].fetched_at >= out[k].fetched_at
              /\ Len(out) <= last_op.limit
              /\ Len(out) = IF rest <= 0 THEN 0
                            ELSE IF rest < last_op.limit THEN rest
                            ELSE last_op.limit
              /\ \E f \in NewestFirst(all) :
                    \A i \in DOMAIN out : out[i] = f[last_op.offset + i]
              /\ (last_op.offset = 0 /\ Len(out) < last_op.limit) =>
                    Len(out) = GetJobCount(jobs, last_op.source)
    /\ last_op.op = "get_job_count" =>
          last_op.returned = Cardinality(Wanted(last_op.source))

\* get_jobs("zhaopin", 1, 1) returned the older of two active zhaopin
\* records while an inactive one and a linkedin one are stored
C21_Witness ==
    /\ last_op.op = "get_jobs"
    /\ last_op.source = "zhaopin" /\ last_op.limit = 1 /\ last_op.offset = 1
    /\ Len(last_op.out) = 1
    /\ Cardinality(Wanted("zhaopin")) = 2
    /\ \E j \in Wanted("zhaopin") : j.fetched_at > last_op.out[1].fetched_at
    /\ \E r \in jobs : r.source = "linkedin"

(***************************************************************************)
(* The inverse parsers applied to normalized texts                         *)
(***************************************************************************)

\* normalized salaries, None and ""
InverseSalaries ==
    {Str(KRange(Whole(a), Whole(b))) : a \in FilterYears, b \in FilterYears}
        \cup {Str(KRange(Whole(20), Whole(35))), NoneStr, Str(<< >>)}

\* normalized experiences, None and ""
InverseExperiences == RecordExperiences \cup {Str(<< >>)}

\* parse_salary_min(salary_range)
DoParseSalaryMin ==
    /\ ParseRest
    /\ \E salary_range \in InverseSalaries :
        last_op' = [op |-> "parse_salary_min", arg |-> salary_range,
                    out |-> parse_salary_min(salary_range)]

\* parse_experience_years(exp_str)
DoParseExperienceYears ==
    /\ ParseRest
    /\ \E exp_str \in InverseExperiences :
        last_op' = [op |-> "parse_experience_years", arg |-> exp_str,
                    out |-> parse_experience_years(exp_str)]

\* parse_salary_min(extract_salary(text))
DoParseExtractedSalary ==
    /\ ParseRest
    /\ \E text \in SalaryTexts :
        last_op' = [op |-> "parse_salary_min", arg |-> extract_salary(text),
                    out |-> parse_salary_min(extract_salary(text))]

\* parse_experience_years(extract_experience(text))
DoParseExtractedExperience ==
    /\ ParseRest
    /\ \E text \in ExperienceTexts :
        last_op' = [op |-> "parse_experience_years",
                    arg |-> extract_experience(text),
                    out |-> parse_experience_years(extract_experience(text))]

NextInverse ==
    \/ DoParseSalaryMin \/ DoParseExperienceYears
    \/ DoParseExtractedSalary \/ DoParseExtractedExperience

SpecInverse == InitParse /\ [][NextInverse]_vars

\* the text is '<a>-<b> years' or '<a>+ years' with whole numbers
IsYearsRange(toks) ==
    /\ Len(toks) = 5 /\ toks = YearsRange(toks[1], toks[3])
    /\ IsNum(toks[1]) /\ toks[1].frac = << >>
    /\ IsNum(toks[3]) /\ toks[3].frac = << >>
IsYearsPlus(toks) ==
    /\ Len(toks) = 4 /\ toks = YearsPlus(toks[1])
    /\ IsNum(toks[1]) /\ toks[1].frac = << >>

\* C22: parse_salary_min of a normalized salary '<low>k-<high>k' returns
\* low; parse_experience_years returns (a, b) for '<a>-<b> years',
\* (a, None) for '<a>+ years' and (0, 0) for 'Entry Level'; both return
\* None for None and for "".
C22_InverseParsers ==
    /\ last_op.op = "parse_salary_min" =>
          /\ (~last_op.arg.is_none /\ IsIntKRange(last_op.arg.toks)) =>
                last_op.out = SomeInt(last_op.arg.toks[1].whole)
          /\ (last_op.arg.is_none \/ last_op.arg.toks = << >>) =>
                last_op.out = NoneInt
    /\ last_op.op = "parse_experience_years" =>
          /\ (~last_op.arg.is_none /\ IsYearsRange(last_op.arg.toks)) =>
                last_op.out = Range(last_op.arg.toks[1].whole,
                                    last_op.arg.toks[3].whole)
          /\ (~last_op.arg.is_none /\ IsYearsPlus(last_op.arg.toks)) =>
                last_op.out = OpenRange(last_op.arg.toks[1].whole)
          /\ last_op.arg = Str(EntryLevel) => last_op.out = Range(0, 0)
          /\ (last_op.arg.is_none \/ last_op.arg.toks = << >>) =>
                last_op.out = NoRange

\* '5+ years' was parsed to (5, None)
C22_Witness ==
    /\ last_op.op = "parse_experience_years"
    /\ last_op.arg = Str(YearsPlus(Whole(5)))
    /\ last_op.out = OpenRange(5)

(***************************************************************************)
(* parse_search_results on the text of a page                              *)
(***************************************************************************)

MaxItems == 3    \* a page holds at most MaxItems list items

\* One stretch of a page: a markdown link "[title](url)", or a "[title" that
\* is never closed, and the text that follows it.  `raises` says that an
\* exception is thrown inside the try block of _parse_job_block.
Item(form, title, url, detail, raises) ==
    [form |-> form, title |-> title, url |-> url, detail |-> detail,
     raises |-> raises]

\* the words of a title
TitleToks(title) ==
    CASE title = "Python Engineer" -> <<Sym("Python"), Sym(" "), Sym("Engineer")>>
      [] title = "Java Developer"  -> <<Sym("Java"), Sym(" "), Sym("Developer")>>
      [] OTHER -> <<Sym(title)>>

\* the text of an item
ItemText(it) ==
    IF it.form = "link"
    THEN <<Sym("[")>> \o TitleToks(it.title)
             \o <<Sym("]("), Sym(it.url), Sym(")")>> \o it.detail
    ELSE <<Sym("[")>> \o TitleToks(it.title) \o it.detail

\* job_pattern of ZhaopinScraper: a link to zhaopin.com/jobdetail/...
IsZhaopinJobLink(it) == it.form = "link" /\ it.url \in {ZUrl1, ZUrl2}

\* titles of the skip list of ZhaopinScraper.parse_search_results
NavTitles == {"shouye", "denglu"}

\* markdown[start_pos:end_pos] without the detail of the match itself: the
\* text of the items up to the next match of job_pattern
RECURSIVE TextUpToNextLink(_)
TextUpToNextLink(items) ==
    IF items = << >> \/ IsZhaopinJobLink(Head(items)) THEN << >>
    ELSE ItemText(Head(items)) \o TextUpToNextLink(Tail(items))

\* the education of ZhaopinScraper._parse_job_block: edu_map of the first
\* education word of the block
EducationWords == {"benke", "shuoshi", "boshi", "dazhuan", "xueli buxian"}
EduMap(word) ==
    CASE word = "benke"        -> "Bachelor"
      [] word = "shuoshi"      -> "Master"
      [] word = "boshi"        -> "PhD"
      [] word = "dazhuan"      -> "Associate"
      [] word = "xueli buxian" -> "Not Required"
BlockEducation(block) ==
    LET m == Search(block, <<One(EducationWords)>>)
    IN  IF m.ok THEN Str(<<Sym(EduMap(block[m.from].s))>>) ELSE NoneStr

\* the JobPosting a parser builds; Optional[JobPosting] is a sequence of at
\* most one
ParsedPosting(name, title, url, fields, education) ==
    [id |-> generate_job_id(url), title |-> title, url |-> url,
     source |-> name, salary_range |-> fields.salary_range,
     experience |-> fields.experience, education |-> education,
     tags |-> fields.tags]

\* ZhaopinScraper._parse_job_block(title, url, block): None when the try
\* block raises
ZhaopinParseJobBlock(title, url, block, raises) ==
    IF raises THEN << >>
    ELSE <<ParsedPosting("zhaopin", title, url, ZhaopinJobBlock(block),
                         BlockEducation(block))>>

\* ZhaopinScraper.parse_search_results(markdown)
RECURSIVE ZhaopinParsePage(_)
ZhaopinParsePage(items) ==
    IF items = << >> THEN << >>
    ELSE LET it == Head(items)
         IN  IF ~IsZhaopinJobLink(it) \/ it.title \in NavTitles
             THEN ZhaopinParsePage(Tail(items))
             ELSE ZhaopinParseJobBlock(it.title, it.url,
                      it.detail \o TextUpToNextLink(Tail(items)), it.raises)
                  \o ZhaopinParsePage(Tail(items))

\* LinkedInScraper._parse_job_block(block): None without "title](url)" at
\* the start, for a url without /jobs/view/, and when the try block raises
LinkedInParseJobBlock(it) ==
    IF it.form # "link" THEN << >>
    ELSE IF it.url \notin {LUrl3, LUrl4} THEN << >>
    ELSE IF it.raises THEN << >>
    ELSE <<ParsedPosting("linkedin", it.title, it.url,
                         LinkedInJobBlock(TitleToks(it.title),
                             <<Sym("]("), Sym(it.url), Sym(")")>> \o it.detail),
                         NoneStr)>>

RECURSIVE LinkedInParseBlocks(_)
LinkedInParseBlocks(blocks) ==
    IF blocks = << >> THEN << >>
    ELSE LinkedInParseJobBlock(Head(blocks)) \o LinkedInParseBlocks(Tail(blocks))

\* re.split(r'\n\*\s+\[', markdown)[1:]: every item of the list starts with
\* "* [" on a line of its own; what stands before the first "\n* [" is
\* skipped.  `lead` says that the text starts with a newline.
LinkedInJobBlocks(lead, items) ==
    IF items = << >> \/ lead THEN items ELSE Tail(items)

\* LinkedInScraper.parse_search_results(markdown)
LinkedInParsePage(lead, items) ==
    LinkedInParseBlocks(LinkedInJobBlocks(lead, items))

\* the details that follow a link
ItemDetails ==
    {<< >>,
     <<Sym(" "), Num(1, <<5>>), Sym("-"), Whole(3), Sym("wan"), Sym(" "),
       Whole(3), Sym("-"), Whole(5), Sym("nian"), Sym(" "), Sym("benke"),
       Sym(" ")>>}

ZhaopinItems ==
    {Item("link", "Python Engineer", ZUrl1, dt, FALSE) : dt \in ItemDetails}
        \cup {Item("link", "Java Developer", ZUrl2, << >>, FALSE),
              Item("link", "Java Developer", ZUrl2, << >>, TRUE),
              Item("link", "shouye", ZUrl2, << >>, FALSE),
              Item("link", "Java Developer", LUrl3, << >>, FALSE),
              Item("open", "Java Developer", "", << >>, FALSE)}

LinkedInItems ==
    {Item("link", "Python Engineer", LUrl3, dt, FALSE) : dt \in ItemDetails}
        \cup {Item("link", "Java Developer", LUrl4, << >>, FALSE),
              Item("link", "Java Developer", LUrl4, << >>, TRUE),
              Item("link", "Java Developer", ZUrl2, << >>, FALSE),
              Item("open", "Java Developer", "", << >>, FALSE)}

PagesOf(items) == UNION {[1..n -> items] : n \in 0..MaxItems}

\* ZhaopinScraper.parse_search_results(markdown)
DoZhaopinParsePage ==
    /\ ParseRest
    /\ \E page \in PagesOf(ZhaopinItems) :
        last_op' = [op |-> "parse_search_results", name |-> "zhaopin",
                    lead |-> TRUE, page |-> page,
                    out |-> ZhaopinParsePage(page)]

\* LinkedInScraper.parse_search_results(markdown)
DoLinkedInParsePage ==
    /\ ParseRest
    /\ \E lead \in BOOLEAN, page \in PagesOf(LinkedInItems) :
        last_op' = [op |-> "parse_search_results", name |-> "linkedin",
                    lead |-> lead, page |-> page,
                    out |-> LinkedInParsePage(lead, page)]

NextPage == DoZhaopinParsePage \/ DoLinkedInParsePage

SpecPage == InitParse /\ [][NextPage]_vars

\* the item is a listing with title and url of the parser's platform, and
\* its parsing does not throw
WellFormed(name, it) ==
    /\ it.form = "link"
    /\ ~it.raises
    /\ IF name = "zhaopin"
       THEN it.url \in {ZUrl1, ZUrl2} /\ it.title \notin NavTitles
       ELSE it.url \in {LUrl3, LUrl4}

\* C23: parse_search_results drops an item that has no title and url or
\* whose parsing throws, and parses all the others: it returns one record
\* for every well-formed item, in page order, with the item's title and
\* url, source the parser's name and id generate_job_id(url); a page with
\* two well-formed items and one malformed item gives two records; an item
\* without salary, experience and education gives a record that has None
\* for them.
C23_TolerantParsing ==
    last_op.op = "parse_search_results" =>
        LET good == SelectSeq(last_op.page,
                              LAMBDA it : WellFormed(last_op.name, it))
            out  == last_op.out
        IN  /\ Len(out) = Len(good)
            /\ \A k \in DOMAIN out :
                  /\ k \in DOMAIN good
                  /\ out[k].title = good[k].title
                  /\ out[k].url = good[k].url
                  /\ out[k].source = last_op.name
                  /\ out[k].id = generate_job_id(good[k].url)
                  /\ (\A i \in DOMAIN last_op.page :
                          last_op.page[i].detail = << >>) =>
                        /\ out[k].salary_range.is_none
                        /\ out[k].experience.is_none
                        /\ out[k].education.is_none

(***************************************************************************)
(* A Zhaopin listing from the page to the filter                           *)
(***************************************************************************)

\* the page text of a listing that asks for N or more years
OpenEndedDetail(n) == <<Sym(" "), Whole(n), Sym("nian"), Sym("yishang"), Sym(" ")>>

\* save_job binds job.experience to a TEXT column and _row_to_job reads
\* row["experience"] back: the JobPosting filter_jobs receives
StoredPosting(job) ==
    FilterJob(job.title, NoDescription, job.tags, job.salary_range,
              job.experience)

\* parse_search_results, save_jobs, get_jobs, filter_jobs(jobs, exp=exp)
DoFilterListing ==
    /\ ParseRest
    /\ \E n \in FilterYears, exp \in ExpQueries :
        \E parsed \in {ZhaopinParsePage(<<Item("link", "Python Engineer", ZUrl1,
                                              OpenEndedDetail(n), FALSE)>>)} :
            \E stored \in {[i \in DOMAIN parsed |-> StoredPosting(parsed[i])]} :
                last_op' = [op |-> "filter_listing", years |-> n, exp |-> exp,
                            jobs |-> stored,
                            out |-> filter_jobs(stored, NoTech, NoneInt, exp)]

NextListing == DoFilterListing

SpecListing == InitParse /\ [][NextListing]_vars

\* C24: a Zhaopin listing whose text asks for N or more years is open-ended
\* for the filter: it passes a query 'a-b' whenever b >= N, also when a > N,
\* and it passes every query 'M+'.
C24_OpenEndedListing ==
    last_op.op = "filter_listing" =>
        LET req == parse_experience_years(last_op.exp)
        IN  /\ Len(last_op.jobs) = 1
            /\ (/\ ~req.is_none /\ ~req.max.is_none
                /\ req.max.v >= last_op.years) => last_op.out = last_op.jobs
            /\ (~req.is_none /\ req.max.is_none) => last_op.out = last_op.jobs

----------------------------------------------------------------------------
(* The sessions of one _call_tool call *)

\* the attempts of the call in hand that are over
AttemptsOver == Len(attempt_log) + (IF call_out.kind = "return" THEN 1 ELSE 0)

\* C25: _call_tool opens a new session for every attempt and closes it
\* before the outcome of the attempt is handled: at most one session is open
\* at any time, exactly one while an attempt runs, and none while the call
\* sleeps between attempts, or after it has returned or raised.
C25_OneSessionPerAttempt ==
    /\ session_open \in {0, 1}
    /\ (cpc = "session") <=> (session_open = 1)
    /\ cpc \in {"sleep", "done", "loop", "idle"} => session_open = 0
    /\ opened = AttemptsOver + session_open

\* the call sleeps after its second failed attempt, with no session open
C25_Witness ==
    /\ cpc = "sleep"
    /\ opened = 2
    /\ Len(attempt_log) = 2
    /\ session_open = 0

----------------------------------------------------------------------------
(* A CLI search that does not scrape *)

\* the command in hand is a CLI search answered from the cache or stopped
\* at the monthly limit
NotScraping(c) ==
    /\ c.kind = "cli_search"
    /\ c.path \in {"cache", "rate_limited"}

\* a step of Spec with respect to such a search: the step that runs it ends
\* it at once, touching neither the client nor the three tables, and no
\* later step belongs to it
NotScrapingStep ==
    /\ (ncmds' # ncmds /\ NotScraping(cmd')) =>
            /\ cpos' = "idle"
            /\ UNCHANGED clientVars
            /\ UNCHANGED <<jobs, request_tracker, cache_metadata>>
    /\ (ncmds' = ncmds /\ NotScraping(cmd)) => UNCHANGED vars

\* C26: a CLI search answered from the cache (a cache match while --no-cache
\* is off) and a CLI search stopped because the monthly limit is reached make
\* no remote call and leave the quota counter, the stored jobs and every
\* refresh marker unchanged.
C26_NoScrapeNoEffect == [][NotScrapingStep]_vars

\* a CLI search was stopped at the limit while jobs, a refresh marker and a
\* quota row were there to be changed
C26_Witness ==
    /\ NotScraping(cmd)
    /\ cmd.path = "rate_limited"
    /\ cpos = "idle"
    /\ jobs # {}
    /\ cache_metadata # EmptyTable
    /\ RequestsUsed(request_tracker, now) >= monthly_request_limit

----------------------------------------------------------------------------
(* What concurrent callers of increment_request_count get back *)

\* the values returned to the callers that are done
ReturnedValues == {returned[c] : c \in {d \in Callers : ipc[d] = "done"}}

\* C27: increment_request_count returns the month's total as it stood right
\* after its own increment: when N callers concurrently increment by 1 from
\* a count of c, the N returned values are exactly c+1, ..., c+N, each
\* returned once.
C27_ReturnsOwnTotal ==
    /\ \A c, d \in Callers :
           (c # d /\ ipc[c] = "done" /\ ipc[d] = "done") => returned[c] # returned[d]
    /\ (\A c \in Callers : ipc[c] = "done") =>
           ReturnedValues = (base_count + 1)..(base_count + NumCallers)

----------------------------------------------------------------------------
(* filter_jobs as a record-wise selection *)

\* the record, taken alone, passes the tech, the salary and the experience
\* stage: it satisfies every active criterion
Satisfies(j, tech, salary_min, exp) ==
    /\ TechStage(<<j>>, tech) = <<j>>
    /\ SalaryStage(<<j>>, salary_min) = <<j>>
    /\ ExperienceStage(<<j>>, exp) = <<j>>

\* the results of the three stages run in each of the five other orders
OtherStageOrders(l, t, s, e) ==
    { ExperienceStage(TechStage(SalaryStage(l, s), t), e),
      SalaryStage(ExperienceStage(TechStage(l, t), e), s),
      SalaryStage(TechStage(ExperienceStage(l, e), t), s),
      TechStage(SalaryStage(ExperienceStage(l, e), s), t),
      TechStage(ExperienceStage(SalaryStage(l, s), e), t) }

\* C28: filter_jobs decides each record on its own: its result is the input
\* list restricted, in input order and with records unchanged, to the
\* records that satisfy every active criterion; the result does not depend
\* on the order of the tech, salary and experience stages, and filtering the
\* result again with the same criteria changes nothing.
C28_RecordWise ==
    last_op.op = "filter_jobs" =>
        /\ last_op.out = SelectSeq(last_op.jobs,
               LAMBDA j : Satisfies(j, last_op.tech, last_op.salary_min, last_op.exp))
        /\ OtherStageOrders(last_op.jobs, last_op.tech, last_op.salary_min,
                            last_op.exp) = {last_op.out}
        /\ filter_jobs(last_op.out, last_op.tech, last_op.salary_min, last_op.exp)
               = last_op.out

\* a call with the three criteria active that kept some records and dropped
\* others
C28_Witness ==
    /\ last_op.op = "filter_jobs"
    /\ ~last_op.tech.is_none
    /\ ~last_op.salary_min.is_none
    /\ ~last_op.exp.is_none
    /\ Len(last_op.jobs) = 3
    /\ Len(last_op.out) \in {1, 2}

------

----------------------------------------------------------------------------
(* filter_jobs of the TUI (tui/app.py), translated on its own *)

\* the condition of the list comprehension of the tech filter
TuiTechKeeps(j, tags) ==
    LET job_tags == [k \in DOMAIN j.tags |-> Lower(CharsOf(j.tags[k]))]
        title == Lower(CharsOf(j.title))
        description == IF j.description.is_none THEN << >>
                       ELSE Lower(CharsOf(j.description.s))
        in_text == \E n \in DOMAIN tags :
                       Contains(title, tags[n]) \/ Contains(description, tags[n])
    IN  \E i \in DOMAIN tags :
            (\E k \in DOMAIN job_tags : job_tags[k] = Lower(tags[i])) \/ in_text

\* the one value of a set of one value
Only(S) == CHOOSE x \in S : TRUE

\* job_salary is not None and job_salary >= salary_min
TuiSalaryKeeps(job, salary_min) ==
    \E job_salary \in {parse_salary_min(job.salary_range)} :
        ~job_salary.is_none /\ job_salary.v >= salary_min

\* the loop of the salary filter: new_filtered grows by the jobs kept
RECURSIVE TuiSalaryLoop(_, _, _)
TuiSalaryLoop(filtered, salary_min, new_filtered) ==
    IF filtered = << >> THEN new_filtered
    ELSE Only({TuiSalaryLoop(Tail(filtered), salary_min, appended) :
                  appended \in {IF TuiSalaryKeeps(Head(filtered), salary_min)
                                THEN Append(new_filtered, Head(filtered))
                                ELSE new_filtered}})

\* TuiExperienceKeeps if a job without a readable experience were dropped
TuiExperienceKeeps_DropUnlisted(job, req_min, req_max) ==
    \E job_exp \in {parse_experience_years(job.experience)} :
        IF ~job_exp.is_none
        THEN IF req_max.is_none
             THEN job_exp.max.is_none \/ job_exp.max.v >= req_min
             ELSE IF job_exp.max.is_none
             THEN req_max.v >= job_exp.min
             ELSE job_exp.min <= req_max.v /\ job_exp.max.v >= req_min
        ELSE FALSE

\* the body of the loop of the experience filter: is the job appended
TuiExperienceKeeps(job, req_min, req_max) ==
    \E job_exp \in {parse_experience_years(job.experience)} :
        IF ~job_exp.is_none
        THEN IF req_max.is_none
             THEN job_exp.max.is_none \/ job_exp.max.v >= req_min
             ELSE IF job_exp.max.is_none
             THEN req_max.v >= job_exp.min
             ELSE job_exp.min <= req_max.v /\ job_exp.max.v >= req_min
        ELSE TRUE

\* the loop of the experience filter
RECURSIVE TuiExperienceLoop(_, _, _, _)
TuiExperienceLoop(filtered, req_min, req_max, new_filtered) ==
    IF filtered = << >> THEN new_filtered
    ELSE Only({TuiExperienceLoop(Tail(filtered), req_min, req_max, appended) :
                  appended \in {IF TuiExperienceKeeps(Head(filtered), req_min, req_max)
                                THEN Append(new_filtered, Head(filtered))
                                ELSE new_filtered}})

\* `if tech:` and the list comprehension
TuiTechFilter(filtered, tech) ==
    IF ~tech.is_none /\ tech.chars # << >>
    THEN LET items == SplitComma(tech.chars)
             tags == [i \in DOMAIN items |-> Lower(Strip(items[i]))]
         IN  SelectSeq(filtered, LAMBDA j : TuiTechKeeps(j, tags))
    ELSE filtered

\* `if salary_min is not None:` and its loop
TuiSalaryFilter(filtered, salary_min) ==
    IF ~salary_min.is_none
    THEN TuiSalaryLoop(filtered, salary_min.v, << >>)
    ELSE filtered

\* `if exp:`, `if exp_range:` and the loop
TuiExperienceFilter(filtered, exp) ==
    IF ~Falsy(exp)
    THEN Only({IF ~exp_range.is_none
               THEN TuiExperienceLoop(filtered, exp_range.min, exp_range.max, << >>)
               ELSE filtered :
                  exp_range \in {parse_experience_years(exp)}})
    ELSE filtered

\* filter_jobs(jobs, tech, salary_min, exp) of tui/app.py: the three
\* filters one after the other, each on the list the one before left
tui_filter_jobs(job_list, tech, salary_min, exp) ==
    Only({TuiExperienceFilter(after_salary, exp) :
             after_salary \in {TuiSalaryFilter(after_tech, salary_min) :
                 after_tech \in {TuiTechFilter(job_list, tech)}}})

(***************************************************************************)
(* The two filter_jobs applied to the same arguments                       *)
(***************************************************************************)

MaxBothYears == 4    \* years of experience run from 0 to MaxBothYears

BothYears == 0..MaxBothYears
BothPairs == {q \in BothYears \X BothYears : q[1] <= q[2]}

BothExpQueries ==
    {ExpQuery(r[1], r[2]) : r \in BothPairs}
        \cup {ExpQuery(5, 3)}
        \cup {ExpQueryPlus(a) : a \in BothYears}
        \cup {Str(<<Sym("senior")>>), Str(<< >>), NoneStr}

BothExperienceLists ==
    {<<WithExperience(Str(YearsRange(Whole(r[1]), Whole(r[2]))))>> : r \in BothPairs}
        \cup {<<WithExperience(Str(YearsPlus(Whole(a))))>> : a \in BothYears}
        \cup {<<WithExperience(Str(<<Whole(a), Sym(" "), Sym("years"), Sym("+")>>))>> :
                 a \in BothYears}
        \cup {<<WithExperience(Str(EntryLevel))>>,
              <<WithExperience(Str(<<Sym("jingyan buxian")>>))>>,
              <<WithExperience(NoneStr)>>,
              <<WithExperience(Str(YearsRange(Whole(1), Whole(4)))),
                WithExperience(NoneStr),
                WithExperience(Str(YearsPlus(Whole(3))))>>}

\* one call of each filter_jobs with the same arguments
BothCalls(job_list, tech, salary_min, exp) ==
    \E cli \in {filter_jobs(job_list, tech, salary_min, exp)},
       tui \in {tui_filter_jobs(job_list, tech, salary_min, exp)} :
        last_op' = [op |-> "filter_both", jobs |-> job_list, tech |-> tech,
                    salary_min |-> salary_min, exp |-> exp,
                    cli |-> cli, tui |-> tui]

DoBothTech ==
    /\ ParseRest
    /\ \E job_list \in TechLists, tech \in TechStrings :
        BothCalls(job_list, tech, NoneInt, NoneStr)

DoBothSalary ==
    /\ ParseRest
    /\ \E job_list \in SalaryLists, salary_min \in SalaryMins :
        BothCalls(job_list, NoTech, salary_min, NoneStr)

DoBothExperience ==
    /\ ParseRest
    /\ \E job_list \in BothExperienceLists, exp \in BothExpQueries :
        BothCalls(job_list, NoTech, NoneInt, exp)

DoBothAll ==
    /\ ParseRest
    /\ \E tech \in {Tech(CharsOf("python")), Tech(CharsOf("go")), NoTech},
          salary_min \in {NoneInt, SomeInt(0), SomeInt(2)},
          exp \in {ExpQuery(3, 5), ExpQueryPlus(5), NoneStr} :
        BothCalls(MixedList, tech, salary_min, exp)

NextBoth == DoBothTech \/ DoBothSalary \/ DoBothExperience \/ DoBothAll

SpecBoth == InitParse /\ [][NextBoth]_vars

\* C29: the filter_jobs of the CLI (main.py) and the filter_jobs of the TUI
\* (tui/app.py) return the same list for every input list and every
\* combination of tech, salary_min and exp.
C29_SameFilter ==
    last_op.op = "filter_both" => last_op.cli = last_op.tui

\* both were called with an experience query on a list from which they
\* dropped a record and kept one without experience
C29_Witness ==
    /\ last_op.op = "filter_both"
    /\ ~Falsy(last_op.exp)
    /\ Len(last_op.jobs) = 3
    /\ Len(last_op.tui) = 2
    /\ \E i \in DOMAIN last_op.tui : last_op.tui[i].experience.is_none

----------------------------------------------------------------------------
(* save_job, save_jobs and delete_old_jobs on JobPostings whose id and url
   are chosen independently of each other *)

FreeIds == {generate_job_id(ZUrl1), generate_job_id(LUrl3)}

\* the JobPostings a caller can build at time t: any id with any url
FreePostingsAt(t) ==
    {[JobPosting(u, "Python Engineer", "Beijing", SourceOfUrl(u), t)
         EXCEPT !.id = i] : u \in Urls, i \in FreeIds}

\* the lists of at most MaxBatch such JobPostings
FreeBatchesAt(t) ==
    UNION {[1..n -> FreePostingsAt(t)] : n \in 0..MaxBatch}

\* a caller runs save_job(job)
DoSaveFreeJob ==
    /\ \E job \in FreePostingsAt(now) :
        /\ jobs' = SaveJob(jobs, job)
        /\ last_op' = [op |-> "save_job", batch |-> <<job>>, table_before |-> jobs]
    /\ UNCHANGED <<now, request_tracker, cache_metadata>>
    /\ UNCHANGED <<clientVars, cmdVars, incVars, stale_q>>

\* a caller runs save_jobs(batch)
DoSaveFreeJobs ==
    /\ \E batch \in FreeBatchesAt(now) :
        /\ jobs' = SaveJobs(jobs, batch)
        /\ last_op' = [op |-> "save_jobs", batch |-> batch, table_before |-> jobs]
    /\ UNCHANGED <<now, request_tracker, cache_metadata>>
    /\ UNCHANGED <<clientVars, cmdVars, incVars, stale_q>>

NextFree == TickExpire \/ DoSaveFreeJob \/ DoSaveFreeJobs \/ DoDeleteOldJobs

SpecFree == InitJobs /\ [][NextFree]_vars

\* C30: after any sequence of save_job, save_jobs and delete_old_jobs calls,
\* with the ids and urls of the saved JobPostings chosen freely, no two
\* stored rows share an id or a url, and a save never lowers the number of
\* stored rows: rows disappear only through delete_old_jobs.
C30_UniqueAndSavesKeepRows ==
    /\ \A r, s \in jobs : (r.id = s.id \/ r.url = s.url) => r = s
    /\ last_op.op \in {"save_job", "save_jobs"} =>
           Cardinality(jobs) >= Cardinality(last_op.table_before)

====
